---------------------------- MODULE Spec2Model ----------------------------
(***************************************************************************)
(* Model of the Jobify multi-source job search aggregator                  *)
(* (JobSearcherAgent.search_jobs, src/src/agents/job_searcher.py) and of   *)
(* the France Travail client's token handling                              *)
(* (FranceTravailClient, src/src/utils/api_clients.py).                    *)
(*                                                                         *)
(* Spec    : one search_jobs call: fan-out over the configured clients,    *)
(*           fan-in in completion order, sort, response.                   *)
(* SpecFT  : a sequence of searches on one FranceTravailClient, one at a   *)
(*           time, with the OAuth2 token cache and the 401 refresh.        *)
(***************************************************************************)
EXTENDS Integers, Sequences, FiniteSets, TLC

(***************************************************************************)
(* Bounds of the model.                                                    *)
(***************************************************************************)
\* longest list of records one source client returns for one call
MaxRecords == 2
\* largest number of configured (non-null) clients in the registry
MaxAvail == 2

(***************************************************************************)
(* Values.  A JSON / Python value that can reach posted_date is one of a   *)
(* string (a sequence of character codes), None, or a number.              *)
(***************************************************************************)
Str(s) == [t |-> "str", s |-> s]
NoneV == [t |-> "none"]
IntV(n) == [t |-> "int", n |-> n]
\* marks a key that is missing from a raw dictionary
Absent == [t |-> "absent"]

\* the strings "", "10" and "2": "10" < "2" lexicographically
EmptyStr == Str(<< >>)
D10 == Str(<<1, 0>>)
D2 == Str(<<2>>)

Range(f) == {f[i] : i \in DOMAIN f}

RECURSIVE SeqsUpTo(_, _)
\* all sequences over S of length at most n
SeqsUpTo(S, n) ==
    IF n = 0 THEN {<< >>}
    ELSE LET shorter == SeqsUpTo(S, n - 1)
         IN shorter \cup {Append(q, x) : q \in {r \in shorter : Len(r) = n - 1}, x \in S}

Reverse(xs) == [i \in 1..Len(xs) |-> xs[Len(xs) + 1 - i]]

(***************************************************************************)
(* JobSource (src/src/models/job.py) and the registry.                     *)
(***************************************************************************)
FRANCE_TRAVAIL == "france_travail"
LINKEDIN == "linkedin"
INDEED == "indeed"
GLASSDOOR == "glassdoor"

JobSource == {FRANCE_TRAVAIL, LINKEDIN, INDEED, GLASSDOOR}

\* insertion order of the self.clients dictionary
ClientsOrder == <<FRANCE_TRAVAIL, LINKEDIN, INDEED, GLASSDOOR>>


(***************************************************************************)
(* results.sort(key=..., reverse=True), job_searcher.py line 177.          *)
(*                                                                         *)
(* Python compares two str keys lexicographically by code point, two int   *)
(* keys numerically, and raises TypeError for a str against an int.        *)
(* list.sort on a list shorter than 64 elements is a binary insertion sort *)
(* after one natural run; with reverse=True the list is reversed before    *)
(* and after (this keeps the sort stable).  When a comparison raises, the  *)
(* sort stops where it is, the list is reversed back, and the exception    *)
(* leaves sort: the list keeps every element, in the order reached so far. *)
(***************************************************************************)
RECURSIVE LexLt(_, _)
\* a < b for two strings (sequences of character codes)
LexLt(a, b) ==
    IF b = << >> THEN FALSE
    ELSE IF a = << >> THEN TRUE
    ELSE IF Head(a) # Head(b) THEN Head(a) < Head(b)
    ELSE LexLt(Tail(a), Tail(b))

\* truth value of a Python value
Truthy(v) ==
    CASE v.t = "str" -> v.s # << >>
      [] v.t = "int" -> v.n # 0
      [] v.t = "list" -> v.items # << >>
      [] OTHER -> FALSE

\* the sort key: job.posted_date if hasattr(job, 'posted_date') and job.posted_date else ""
SortKey(job) == IF Truthy(job.posted_date) THEN job.posted_date ELSE EmptyStr

\* whether a < b is defined (it raises TypeError otherwise)
Comparable(a, b) == a.t = b.t

\* a < b for two comparable keys
KeyLt(a, b) == IF a.t = "str" THEN LexLt(a.s, b.s) ELSE a.n < b.n

RECURSIVE CountRun(_, _, _)
\* count_run: the end of the natural run xs[1..i-1], descending or not;
\* n = 0 reports a comparison that raised
CountRun(xs, i, desc) ==
    IF i > Len(xs) THEN [n |-> Len(xs), desc |-> desc]
    ELSE IF ~Comparable(SortKey(xs[i]), SortKey(xs[i - 1])) THEN [n |-> 0, desc |-> desc]
    ELSE IF KeyLt(SortKey(xs[i]), SortKey(xs[i - 1])) = desc THEN CountRun(xs, i + 1, desc)
    ELSE [n |-> i - 1, desc |-> desc]

RECURSIVE BinarySearch(_, _, _, _)
\* the insertion point of pivot in the sorted xs[l..r-1]; 0 when a comparison raised
BinarySearch(xs, pivot, l, r) ==
    IF l >= r THEN l
    ELSE LET p == l + ((r - l) \div 2)
         IN IF ~Comparable(SortKey(pivot), SortKey(xs[p])) THEN 0
            ELSE IF KeyLt(SortKey(pivot), SortKey(xs[p]))
                 THEN BinarySearch(xs, pivot, l, p)
                 ELSE BinarySearch(xs, pivot, p + 1, r)

\* xs with the element at position start moved to position at (at <= start)
MoveTo(xs, start, at) ==
    [i \in 1..Len(xs) |->
        IF i < at \/ i > start THEN xs[i]
        ELSE IF i = at THEN xs[start]
        ELSE xs[i - 1]]

RECURSIVE BinarySort(_, _)
\* binarysort: xs[1..start-1] is sorted; insert the elements from start on
BinarySort(xs, start) ==
    IF start > Len(xs) THEN [ok |-> TRUE, list |-> xs]
    ELSE LET at == BinarySearch(xs, xs[start], 1, start)
         IN IF at = 0 THEN [ok |-> FALSE, list |-> xs]
            ELSE BinarySort(MoveTo(xs, start, at), start + 1)

\* xs with its first n elements reversed
ReversePrefix(xs, n) ==
    [i \in 1..Len(xs) |-> IF i <= n THEN xs[n + 1 - i] ELSE xs[i]]

\* the ascending sort of the (already reversed) list
ListSortAscending(xs) ==
    LET first == IF Comparable(SortKey(xs[2]), SortKey(xs[1]))
                 THEN CountRun(xs, 3, KeyLt(SortKey(xs[2]), SortKey(xs[1])))
                 ELSE [n |-> 0, desc |-> FALSE]
    IN IF first.n = 0 THEN [ok |-> FALSE, list |-> xs]
       ELSE BinarySort(IF first.desc THEN ReversePrefix(xs, first.n) ELSE xs,
                       first.n + 1)

\* faulty variant: reverse=True is missing
SortByPostedDateAscending(xs) ==
    IF Len(xs) < 2 THEN [ok |-> TRUE, list |-> xs] ELSE ListSortAscending(xs)

\* faulty variant: the postings without a date are left out of the sort
SortByPostedDateDropsUndated(xs) ==
    LET dated == SelectSeq(xs, LAMBDA job : Truthy(job.posted_date))
    IN IF Len(dated) < 2 THEN [ok |-> TRUE, list |-> dated]
       ELSE LET r == ListSortAscending(Reverse(dated))
            IN [ok |-> r.ok, list |-> Reverse(r.list)]

\* results.sort(key=..., reverse=True): ok = FALSE when the sort raised
SortByPostedDate(xs) ==
    IF Len(xs) < 2 THEN [ok |-> TRUE, list |-> xs]
    ELSE LET r == ListSortAscending(Reverse(xs))
         IN [ok |-> r.ok, list |-> Reverse(r.list)]

(***************************************************************************)
(* Raw records and postings.                                               *)
(*                                                                         *)
(* A raw France Travail record is a JSON value: a dictionary               *)
(* with t |-> "dict" and one field per key the normalization reads, each   *)
(* of which but id may be Absent, or any other JSON value.  A JobPosting   *)
(* has the fields of models/job.py.  A text that is never compared for     *)
(* order is Txt(name).                                                     *)
(***************************************************************************)
Txt(name) == [t |-> "str", txt |-> name]
\* a raw record with the keys id, dateCreation and entreprise, and none of
\* the other keys the normalization reads
Dict(id, dateCreation, entreprise) ==
    [t |-> "dict", id |-> id, dateCreation |-> dateCreation, entreprise |-> entreprise,
     intitule |-> Absent, description |-> Absent, origineOffre |-> Absent,
     lieuTravail |-> Absent, competences |-> Absent, typeContrat |-> Absent,
     salaire |-> Absent, experienceExige |-> Absent, formationExige |-> Absent]

\* the "entreprise" sub-dictionary, with or without its "nom"
Entreprise(nom) == [t |-> "dict", nom |-> nom]

\* the "lieuTravail" sub-dictionary
LieuTravail(libelle, codePostal) ==
    [t |-> "dict", libelle |-> libelle, codePostal |-> codePostal]

\* the "origineOffre" sub-dictionary
OrigineOffre(urlOrigine) == [t |-> "dict", urlOrigine |-> urlOrigine]

\* a sub-dictionary read by its "libelle": "salaire", an item of "competences"
Labelled(libelle) == [t |-> "dict", libelle |-> libelle]

\* the empty dictionary, read by any of the keys above
EmptyDict ==
    [t |-> "dict", nom |-> Absent, libelle |-> Absent, codePostal |-> Absent,
     urlOrigine |-> Absent]

\* a JobPosting of which only the fields the aggregator reads are set
JobPosting(job_id, company, posted_date, source) ==
    [job_id |-> job_id, company |-> company, posted_date |-> posted_date, source |-> source,
     title |-> NoneV, location |-> NoneV, description |-> NoneV, url |-> NoneV,
     salary_range |-> NoneV, job_type |-> NoneV, required_skills |-> << >>,
     required_experience |-> NoneV, required_education |-> NoneV, raw_data |-> NoneV]

\* Location(city, postal_code, region="", country="France",
\* formatted_address=f"{city}, {postal_code}, {country}"), job_searcher.py 249-255
Location(city, postal_code) ==
    [city |-> city, postal_code |-> postal_code, region |-> EmptyStr,
     country |-> Txt("France"),
     formatted_address |-> <<city, postal_code, Txt("France")>>]

\* d.get(key, default) on a dictionary whose field holds the key's value or Absent
Get(value, default) == IF value.t = "absent" THEN default ELSE value

\* the default of job.get("entreprise", {}).get("nom", "Non spécifié")
NonSpecifie == Txt("Non specifie")

\* the default of job.get("origineOffre", {}).get("urlOrigine", ...), line 239
DefaultUrl == Txt("https://www.francetravail.fr/")

\* faulty variant: the company is read as job["entreprise"]["nom"], which
\* raises for a record without the key
RecordRaisesWithoutCompany(job) ==
    \/ job.t # "dict"
    \/ job.entreprise.t # "dict"
    \/ job.entreprise.nom.t = "absent"

\* whether the body of the per-record try block raises: job.get on a value
\* that is no dictionary, .get on an "entreprise", "origineOffre",
\* "lieuTravail" or "salaire" that is no dictionary, an iteration over
\* "competences" that is no list, or .get on one of its items that is no
\* dictionary
RecordRaises(job) ==
    \/ job.t # "dict"
    \/ Get(job.entreprise, EmptyDict).t # "dict"
    \/ Get(job.origineOffre, EmptyDict).t # "dict"
    \/ Get(job.lieuTravail, EmptyDict).t # "dict"
    \/ /\ job.competences.t # "absent"
       /\ \/ job.competences.t # "list"
          \/ \E i \in DOMAIN job.competences.items : job.competences.items[i].t # "dict"
    \/ Get(job.salaire, EmptyDict).t # "dict"

\* skills, lines 257-260
RequiredSkills(job) ==
    IF job.competences.t = "absent" THEN << >>
    ELSE [i \in DOMAIN job.competences.items |->
            Get(job.competences.items[i].libelle, EmptyStr)]

VARIABLES
    norm_calls      \* the agent's calls of _process_france_travail_results so
                    \* far, each with its argument and the list it returned

\* faulty variant: the posting's id is numbered on from the calls the agent
\* has made before
NormalizeRecordNumbered(job) ==
    [JobPosting(job.id + Len(norm_calls),
                Get(Get(job.entreprise, EmptyDict).nom, NonSpecifie),
                Get(job.dateCreation, EmptyStr),
                FRANCE_TRAVAIL)
     EXCEPT !.raw_data = job]

\* the JobPosting built from one raw record that does not raise
NormalizeRecord(job) ==
    [JobPosting(job.id,
                Get(Get(job.entreprise, EmptyDict).nom, NonSpecifie),
                Get(job.dateCreation, EmptyStr),
                FRANCE_TRAVAIL)
     EXCEPT !.title = Get(job.intitule, EmptyStr),
            !.location = Location(Get(Get(job.lieuTravail, EmptyDict).libelle, EmptyStr),
                                  Get(Get(job.lieuTravail, EmptyDict).codePostal, EmptyStr)),
            !.description = Get(job.description, EmptyStr),
            !.url = Get(Get(job.origineOffre, EmptyDict).urlOrigine, DefaultUrl),
            !.salary_range = Get(Get(job.salaire, EmptyDict).libelle, EmptyStr),
            !.job_type = Get(job.typeContrat, EmptyStr),
            !.required_skills = RequiredSkills(job),
            !.required_experience = Get(job.experienceExige, EmptyStr),
            !.required_education = Get(job.formationExige, EmptyStr),
            !.raw_data = job]

\* faulty variant: the try block is around the loop, the first record that
\* raises ends the batch
ProcessUntilFailure(raw) ==
    IF \E i \in DOMAIN raw : RecordRaises(raw[i])
    THEN LET bad == CHOOSE i \in DOMAIN raw :
                        RecordRaises(raw[i]) /\ \A k \in 1..(i - 1) : ~RecordRaises(raw[k])
         IN [i \in 1..(bad - 1) |-> NormalizeRecord(raw[i])]
    ELSE [i \in DOMAIN raw |-> NormalizeRecord(raw[i])]

RECURSIVE ProcessFranceTravailResults(_)
\* _process_france_travail_results: a record that raises is skipped
ProcessFranceTravailResults(raw) ==
    IF raw = << >> THEN << >>
    ELSE IF RecordRaises(Head(raw)) THEN ProcessFranceTravailResults(Tail(raw))
    ELSE <<NormalizeRecord(Head(raw))>> \o ProcessFranceTravailResults(Tail(raw))

(***************************************************************************)
(* What a source client's search_jobs can do for one call: raise, or       *)
(* return a list.  FranceTravailClient returns data["resultats"] as the    *)
(* job board sent it: a list of raw records or, when that value is no      *)
(* list, something the aggregator cannot iterate.  The other clients       *)
(* return the JobPosting objects they built, numbered from 1.              *)
(***************************************************************************)
Raised == [kind |-> "raised"]
Returned(items) == [kind |-> "list", items |-> items]
ReturnedNonList == [kind |-> "nonlist"]

\* raw France Travail records as the job board may send them (without id)
FTRecordPool ==
    { [dateCreation |-> D10, entreprise |-> Entreprise(Txt("Acme"))],
      [dateCreation |-> IntV(5), entreprise |-> Absent],
      [dateCreation |-> Absent, entreprise |-> Entreprise(Absent)],
      [dateCreation |-> D2, entreprise |-> NoneV] }

\* the posted_date values each other client can put in a JobPosting:
\* LinkedIn reads an HTML attribute (a string or None), Indeed copies the
\* JSON "date" (any JSON value), Glassdoor formats the current day
PostedDates(source) ==
    CASE source = LINKEDIN -> {NoneV, D2}
      [] source = INDEED -> {IntV(5), D10}
      [] source = GLASSDOOR -> {D10, D2}

ClientReturns(source) ==
    IF source = FRANCE_TRAVAIL
    THEN {Raised, ReturnedNonList} \cup
         { Returned([i \in 1..Len(q) |-> Dict(i, q[i].dateCreation, q[i].entreprise)]) :
             q \in SeqsUpTo(FTRecordPool, MaxRecords) }
    ELSE {Raised} \cup
         { Returned([i \in 1..Len(q) |-> JobPosting(i, Txt("Co"), q[i], source)]) :
             q \in SeqsUpTo(PostedDates(source), MaxRecords) }

(***************************************************************************)
(* State.                                                                  *)
(***************************************************************************)
VARIABLES
    clients,            \* self.clients: source -> Null or Client
    pc,                 \* where search_jobs is: idle, fanin, returned, raised
    available_sources,  \* the local list of line 143
    task,               \* per source: none, running, done, collected
    outcome,            \* per source: what its task did (raised / returned)
    completed,          \* the futures as_completed has yet to yield, oldest first
    results,            \* the merged list
    failed_sources,     \* the list of failed sources
    invoked,            \* per source: calls of its client's search_jobs
    merged,             \* the merged list as it stood before the sort of line 177
    response            \* the JobSearchResponse returned

aggVars == <<clients, pc, available_sources, task, outcome, completed, results,
             failed_sources, invoked, merged, response>>

VARIABLES
    client_id,      \* whether FRANCE_TRAVAIL_CLIENT_ID is set
    client_secret,  \* whether FRANCE_TRAVAIL_CLIENT_SECRET is set
    api_key,        \* whether FRANCE_TRAVAIL_API_KEY is set
    access_token,   \* self.access_token: NoneV or Token(n)
    token_expiry,   \* self.token_expiry: NoneV or Time(n, token)
    now,            \* datetime.now()
    issued,         \* tokens the authorization server has issued
    calls,          \* searches begun
    ftpc,           \* per thread: idle, auth, auth_read, exchanging, requesting, retrying
    phase,          \* per thread: first (line 165) or refresh (line 295)
    bearer,         \* per thread: the bearer token of each search request sent
    new_token,      \* per thread: the local new_token of line 295
    replies,        \* per thread: the replies to its search requests
    exchanges,      \* per thread: token POSTs sent, as <<first, refresh>> counts
    ftresult        \* per thread: none, returned, raised

ftVars == <<client_id, client_secret, api_key, access_token, token_expiry, now,
            issued, calls, ftpc, phase, bearer, new_token, replies, exchanges,
            ftresult>>

VARIABLES
    query,          \* the JobSearchRequest search_jobs was called with
    call_args,      \* per source: the arguments of each call of its client's search_jobs
    max_workers     \* max_workers of the ThreadPoolExecutor (0: none created)

reqVars == <<query, call_args, max_workers>>

VARIABLES
    env             \* the environment: which of the variables __init__ reads are set


VARIABLES
    csource,        \* a single client call: the client's source
    cargs,          \* the arguments of the call
    cpc,            \* idle, sent, resent, returned, raised
    crequests,      \* the HTTP requests the call has sent
    creplies,       \* the replies it has received
    cret            \* the value it returned

cliVars == <<csource, cargs, cpc, crequests, creplies, cret>>

\* the state of the models of single calls and of the agent's environment
auxVars == <<env, cliVars, norm_calls>>

Null == "None"
Client == "client"
NoOutcome == [kind |-> "none"]
NoResponse == [status |-> "none"]

\* faulty variant: the "client is not None" filter is missing
AvailableSourcesUnfiltered(c) == ClientsOrder

\* [source for source, client in self.clients.items() if client is not None]
AvailableSources(c) == SelectSeq(ClientsOrder, LAMBDA s : c[s] # Null)

\* faulty variant: available_sources keeps only the sources that did not fail
JobSearchResponseSucceededOnly(res, available, failed, total) ==
    [status |-> "returned", results |-> res,
     available_sources |-> SelectSeq(available, LAMBDA s : s \notin Range(failed)),
     failed_sources |-> failed, total_count |-> total]

\* faulty variant: total_count counts the sources queried instead of the postings
JobSearchResponseCountsSources(res, available, failed, total) ==
    [status |-> "returned", results |-> res, available_sources |-> available,
     failed_sources |-> failed, total_count |-> Len(available)]

\* JobSearchResponse(query, results, available_sources, failed_sources, total_count)
JobSearchResponse(res, available, failed, total) ==
    [status |-> "returned", results |-> res, available_sources |-> available,
     failed_sources |-> failed, total_count |-> total]

\* a Python list
List(items) == [t |-> "list", items |-> items]

\* JobSearchRequest.__init__: keywords or []
JobSearchRequest(job_title, location, radius, keywords, limit_per_source) ==
    [job_title |-> job_title, location |-> location, radius |-> radius,
     keywords |-> IF keywords.t = "none" THEN List(<< >>) ELSE keywords,
     limit_per_source |-> limit_per_source]

\* the request search_jobs is called with: no field has its default value
Queries ==
    { JobSearchRequest(Txt("Stage data"), Txt("Lyon"), 20, List(<<Txt("python")>>), 2) }

NoQuery == [job_title |-> NoneV]

\* faulty variant: the limit is left to the client's default of 10
SearchArgsDefaultLimit(q) ==
    [job_title |-> q.job_title, location |-> q.location, radius |-> q.radius,
     keywords |-> q.keywords, limit |-> 10]

\* the keyword arguments _search_on_source passes to client.search_jobs
SearchArgs(q) ==
    [job_title |-> q.job_title, location |-> q.location, radius |-> q.radius,
     keywords |-> q.keywords, limit |-> q.limit_per_source]

\* a search_jobs call is about to be made with some request
ReqInit ==
    /\ query \in Queries
    /\ call_args = [s \in JobSource |-> << >>]
    /\ max_workers = 0

\* no search_jobs call of the agent is modelled
ReqQuiet ==
    /\ query = NoQuery
    /\ call_args = [s \in JobSource |-> << >>]
    /\ max_workers = 0

\* the environment plays no part
EnvQuiet == env = NoneV

\* no single client call is modelled
CliQuiet ==
    /\ csource = Null
    /\ cargs = NoneV
    /\ cpc = "idle"
    /\ crequests = << >>
    /\ creplies = << >>
    /\ cret = NoneV

\* no normalization on its own is modelled
NormQuiet == norm_calls = << >>

AuxQuiet == EnvQuiet /\ CliQuiet /\ NormQuiet

\* the registry a search can find: each source configured or not
AggInit ==
    /\ clients \in {c \in [JobSource -> {Null, Client}] :
                      Cardinality({s \in JobSource : c[s] # Null}) <= MaxAvail}
    /\ pc = "idle"
    /\ available_sources = << >>
    /\ task = [s \in JobSource |-> "none"]
    /\ outcome = [s \in JobSource |-> NoOutcome]
    /\ completed = << >>
    /\ results = << >>
    /\ failed_sources = << >>
    /\ invoked = [s \in JobSource |-> 0]
    /\ merged = << >>
    /\ response = NoResponse

(***************************************************************************)
(* search_jobs, lines 142-145: no client configured.                       *)
(***************************************************************************)
SearchNoSource ==
    /\ pc = "idle"
    /\ AvailableSources(clients) = << >>
    /\ pc' = "raised"
    /\ UNCHANGED <<clients, available_sources, task, outcome, completed, results,
                   failed_sources, invoked, merged, response>>
    /\ UNCHANGED <<ftVars, reqVars, auxVars>>

(***************************************************************************)
(* search_jobs, lines 143-156: one task submitted per available source to  *)
(* a pool of len(available_sources) workers.                               *)
(***************************************************************************)
Dispatch ==
    /\ pc = "idle"
    /\ AvailableSources(clients) # << >>
    /\ available_sources' = AvailableSources(clients)
    /\ task' = [s \in JobSource |->
                  IF s \in Range(AvailableSources(clients)) THEN "running" ELSE "none"]
    /\ results' = << >>
    /\ failed_sources' = << >>
    /\ pc' = "fanin"
    /\ max_workers' = Len(AvailableSources(clients))
    /\ UNCHANGED <<clients, outcome, completed, invoked, merged, response>>
    /\ UNCHANGED <<query, call_args>>
    /\ UNCHANGED <<ftVars, auxVars>>

(***************************************************************************)
(* _search_on_source in a worker thread: the client is looked up and its   *)
(* search_jobs called once; what it returns or raises is the future's      *)
(* result.  The future is then done and as_completed will yield it.        *)
(***************************************************************************)
\* faulty variant: the worker appends what its client returned to the shared
\* results list itself
SearchOnSourceWritesResults(source) ==
    /\ task[source] = "running"
    /\ clients[source] # Null
    /\ \E o \in ClientReturns(source) :
         /\ outcome' = [outcome EXCEPT ![source] = o]
         /\ results' = IF o.kind = "list" THEN results \o o.items ELSE results
    /\ invoked' = [invoked EXCEPT ![source] = @ + 1]
    /\ call_args' = [call_args EXCEPT ![source] = Append(@, SearchArgs(query))]
    /\ task' = [task EXCEPT ![source] = "done"]
    /\ completed' = Append(completed, source)
    /\ UNCHANGED <<clients, pc, available_sources, failed_sources, merged, response>>
    /\ UNCHANGED <<query, max_workers>>
    /\ UNCHANGED <<ftVars, auxVars>>

SearchOnSource(source) ==
    /\ task[source] = "running"
    /\ IF clients[source] = Null
       THEN /\ outcome' = [outcome EXCEPT ![source] = Raised]
            /\ UNCHANGED <<invoked, call_args>>
       ELSE /\ \E o \in ClientReturns(source) :
                 outcome' = [outcome EXCEPT ![source] = o]
            /\ invoked' = [invoked EXCEPT ![source] = @ + 1]
            /\ call_args' = [call_args EXCEPT ![source] = Append(@, SearchArgs(query))]
    /\ task' = [task EXCEPT ![source] = "done"]
    /\ completed' = Append(completed, source)
    /\ UNCHANGED <<clients, pc, available_sources, results, failed_sources, merged,
                   response>>
    /\ UNCHANGED <<query, max_workers>>
    /\ UNCHANGED <<ftVars, auxVars>>

\* faulty variant: a task that raised counts as an empty result
ProcessedSwallowsFailure(source, o) ==
    IF o.kind # "list" THEN [ok |-> TRUE, items |-> << >>]
    ELSE IF source = FRANCE_TRAVAIL
         THEN [ok |-> TRUE, items |-> ProcessFranceTravailResults(o.items)]
         ELSE [ok |-> TRUE, items |-> o.items]

\* the body of the try block of lines 161-170 for one future: ok = FALSE
\* when it raises (future.result() re-raises, a value that is no list cannot
\* be iterated), else the postings to extend the results with
Processed(source, o) ==
    IF o.kind # "list" THEN [ok |-> FALSE, items |-> << >>]
    ELSE IF source = FRANCE_TRAVAIL
         THEN [ok |-> TRUE, items |-> ProcessFranceTravailResults(o.items)]
         ELSE [ok |-> TRUE, items |-> o.items]

\* faulty variant: no except clause around future.result(): the exception of a
\* task leaves search_jobs
CollectUncaught ==
    /\ pc = "fanin"
    /\ completed # << >>
    /\ LET source == Head(completed)
           got == Processed(source, outcome[source])
       IN /\ IF got.ok
             THEN results' = results \o got.items /\ pc' = pc
             ELSE pc' = "raised" /\ UNCHANGED results
          /\ task' = [task EXCEPT ![source] = "collected"]
    /\ completed' = Tail(completed)
    /\ UNCHANGED <<clients, available_sources, outcome, failed_sources, invoked,
                   merged, response>>
    /\ UNCHANGED <<ftVars, reqVars, auxVars>>

\* faulty variant: the task of a source that failed is submitted again
CollectRequeuesFailure ==
    /\ pc = "fanin"
    /\ completed # << >>
    /\ LET source == Head(completed)
           got == Processed(source, outcome[source])
       IN IF got.ok
          THEN /\ results' = results \o got.items
               /\ task' = [task EXCEPT ![source] = "collected"]
          ELSE /\ UNCHANGED results
               /\ task' = [task EXCEPT ![source] = "running"]
    /\ completed' = Tail(completed)
    /\ UNCHANGED <<clients, pc, available_sources, outcome, failed_sources, invoked,
                   merged, response>>
    /\ UNCHANGED <<ftVars, reqVars, auxVars>>

\* faulty variant: a failure is recorded once for the exception and once
\* more for the source
CollectFailureTwice ==
    /\ pc = "fanin"
    /\ completed # << >>
    /\ LET source == Head(completed)
           got == Processed(source, outcome[source])
       IN /\ IF got.ok
             THEN /\ results' = results \o got.items
                  /\ UNCHANGED failed_sources
             ELSE /\ failed_sources' = failed_sources \o <<source, source>>
                  /\ UNCHANGED results
          /\ task' = [task EXCEPT ![source] = "collected"]
    /\ completed' = Tail(completed)
    /\ UNCHANGED <<clients, pc, available_sources, outcome, invoked, merged, response>>
    /\ UNCHANGED <<ftVars, reqVars, auxVars>>

(***************************************************************************)
(* One iteration of the as_completed loop, lines 159-173, in the           *)
(* orchestrating thread.                                                   *)
(***************************************************************************)
Collect ==
    /\ pc = "fanin"
    /\ completed # << >>
    /\ LET source == Head(completed)
           got == Processed(source, outcome[source])
       IN /\ IF got.ok
             THEN /\ results' = results \o got.items
                  /\ UNCHANGED failed_sources
             ELSE /\ failed_sources' = Append(failed_sources, source)
                  /\ UNCHANGED results
          /\ task' = [task EXCEPT ![source] = "collected"]
    /\ completed' = Tail(completed)
    /\ UNCHANGED <<clients, pc, available_sources, outcome, invoked, merged, response>>
    /\ UNCHANGED <<ftVars, reqVars, auxVars>>

\* faulty variant: the loop ends with the first future collected
FanInFirstCompleted == \E s \in Range(available_sources) : task[s] = "collected"

\* as_completed is exhausted: it has yielded every submitted future
FanInComplete == \A s \in Range(available_sources) : task[s] = "collected"

(***************************************************************************)
(* search_jobs, lines 175-191: sort in place (an exception of the sort is  *)
(* swallowed), build the response, return it.                              *)
(***************************************************************************)
SortAndReturn ==
    /\ pc = "fanin"
    /\ FanInComplete
    /\ merged' = results
    /\ LET sorted == SortByPostedDate(results).list
       IN /\ results' = sorted
          /\ response' = JobSearchResponse(sorted, available_sources, failed_sources,
                                           Len(sorted))
    /\ pc' = "returned"
    /\ UNCHANGED <<clients, available_sources, task, outcome, completed,
                   failed_sources, invoked>>
    /\ UNCHANGED <<ftVars, reqVars, auxVars>>

AggNext ==
    \/ SearchNoSource
    \/ Dispatch
    \/ \E source \in JobSource : SearchOnSource(source)
    \/ Collect
    \/ SortAndReturn

(***************************************************************************)
(* FranceTravailClient: authentication state and search_jobs.              *)
(*                                                                         *)
(* A search is a thread of Threads.  Its steps are the runs of code        *)
(* between two blocking network calls: the token POST of line 100 and the  *)
(* search GETs of lines 286 and 298; line 142 reads self.access_token a    *)
(* second time and is a step of its own.                                   *)
(***************************************************************************)
\* token exchanges answered with an integer expires_in up to this many ticks
MaxExpiresIn == 2
\* the clock stops here
MaxTime == 3
\* searches begun on the client
MaxCalls == 3

Threads == {"t1", "t2"}

Token(n) == [t |-> "token", n |-> n]
\* a datetime; of is the number of the token whose exchange delivered it
\* (no code reads it: it serves the properties only)
Time(n, token) == [t |-> "time", at |-> n, of |-> token]
\* the pre-issued static token of FRANCE_TRAVAIL_API_KEY
ApiKey == [t |-> "key"]

\* what the authorization server can answer to the POST of line 100
TokenResponses ==
    { [kind |-> "exception"],       \* requests.post or response.json() raises
      [kind |-> "status"],          \* status_code != 200
      [kind |-> "no_token"] }       \* no access_token in the body
    \cup { [kind |-> "token", expires_in |-> e] :
             e \in {Absent, Str(<<3>>)} \cup {IntV(n) : n \in 1..MaxExpiresIn} }

\* what the job board can answer to a search GET
SearchResponses ==
    { [kind |-> "exception"] }      \* requests.RequestException
    \cup { [kind |-> "http", status |-> s, json |-> TRUE] : s \in {200, 206, 401, 500} }
    \cup { [kind |-> "http", status |-> s, json |-> FALSE] : s \in {200, 206} }

FTInit ==
    /\ client_id \in BOOLEAN
    /\ client_secret \in BOOLEAN
    /\ api_key \in BOOLEAN
    /\ access_token = NoneV
    /\ token_expiry = NoneV
    /\ now = 0
    /\ issued = 0
    /\ calls = 0
    /\ ftpc = [t \in Threads |-> "idle"]
    /\ phase = [t \in Threads |-> "first"]
    /\ bearer = [t \in Threads |-> << >>]
    /\ new_token = [t \in Threads |-> NoneV]
    /\ replies = [t \in Threads |-> << >>]
    /\ exchanges = [t \in Threads |-> [first |-> 0, refresh |-> 0]]
    /\ ftresult = [t \in Threads |-> "none"]

\* the call ends by raising
FTRaise(t) ==
    /\ ftpc' = [ftpc EXCEPT ![t] = "idle"]
    /\ ftresult' = [ftresult EXCEPT ![t] = "raised"]

\* the call ends by returning the records
FTReturn(t) ==
    /\ ftpc' = [ftpc EXCEPT ![t] = "idle"]
    /\ ftresult' = [ftresult EXCEPT ![t] = "returned"]

\* a search GET leaves with this bearer token
FTSend(t, token, next) ==
    /\ bearer' = [bearer EXCEPT ![t] = Append(@, token)]
    /\ ftpc' = [ftpc EXCEPT ![t] = next]
    /\ UNCHANGED ftresult

(***************************************************************************)
(* What search_jobs does with the value _get_auth_token returned.          *)
(* Line 168: without a token the call raises before any request; line 286  *)
(* sends the first request.  Lines 296-298: with a new token the retry is  *)
(* sent; without one the reply in hand is still the 401 and line 308       *)
(* raises.                                                                 *)
(***************************************************************************)
\* faulty variant: the request is sent whether or not there is a token
WithAuthTokenUnchecked(t, token) ==
    /\ new_token' = IF phase[t] = "refresh" THEN [new_token EXCEPT ![t] = token]
                    ELSE new_token
    /\ FTSend(t, token, IF phase[t] = "first" THEN "requesting" ELSE "retrying")

WithAuthToken(t, token) ==
    /\ new_token' = IF phase[t] = "refresh" THEN [new_token EXCEPT ![t] = token]
                    ELSE new_token
    /\ IF token = NoneV
       THEN FTRaise(t) /\ UNCHANGED bearer
       ELSE FTSend(t, token, IF phase[t] = "first" THEN "requesting" ELSE "retrying")

\* search_jobs is called
FTBegin(t) ==
    /\ ftpc[t] = "idle"
    /\ calls < MaxCalls
    /\ calls' = calls + 1
    /\ ftpc' = [ftpc EXCEPT ![t] = "auth"]
    /\ phase' = [phase EXCEPT ![t] = "first"]
    /\ bearer' = [bearer EXCEPT ![t] = << >>]
    /\ new_token' = [new_token EXCEPT ![t] = NoneV]
    /\ replies' = [replies EXCEPT ![t] = << >>]
    /\ exchanges' = [exchanges EXCEPT ![t] = [first |-> 0, refresh |-> 0]]
    /\ ftresult' = [ftresult EXCEPT ![t] = "none"]
    /\ UNCHANGED <<client_id, client_secret, api_key, access_token, token_expiry,
                   now, issued>>
    /\ UNCHANGED <<aggVars, reqVars, auxVars>>

\* search_jobs is called while no other search runs on the client
FTBeginAlone(t) ==
    /\ \A u \in Threads : ftpc[u] = "idle"
    /\ FTBegin(t)

\* faulty variant: the expiry is not looked at
CachedTokenNeverExpires == access_token # NoneV

\* the test of lines 139-141: a cached token whose stored expiry is ahead
CachedTokenValid ==
    /\ access_token # NoneV
    /\ token_expiry # NoneV
    /\ now < token_expiry.at

\* the test of line 78
HasCredentials == client_id /\ client_secret

\* faulty variant: the key is used only when the credentials are missing
GetAuthTokenPrefersCredentials(t) ==
    /\ ftpc[t] = "auth"
    /\ IF api_key /\ ~HasCredentials
       THEN WithAuthToken(t, ApiKey) /\ UNCHANGED exchanges
       ELSE IF CachedTokenValid
       THEN /\ ftpc' = [ftpc EXCEPT ![t] = "auth_read"]
            /\ UNCHANGED <<bearer, new_token, ftresult, exchanges>>
       ELSE IF ~HasCredentials
       THEN WithAuthToken(t, NoneV) /\ UNCHANGED exchanges
       ELSE /\ ftpc' = [ftpc EXCEPT ![t] = "exchanging"]
            /\ exchanges' = [exchanges EXCEPT ![t][phase[t]] = @ + 1]
            /\ UNCHANGED <<bearer, new_token, ftresult>>
    /\ UNCHANGED <<client_id, client_secret, api_key, access_token, token_expiry,
                   now, issued, calls, phase, replies>>
    /\ UNCHANGED <<aggVars, reqVars, auxVars>>

(***************************************************************************)
(* _get_auth_token, lines 135-145, up to the POST of _get_access_token.    *)
(***************************************************************************)
GetAuthToken(t) ==
    /\ ftpc[t] = "auth"
    /\ IF api_key
       THEN WithAuthToken(t, ApiKey) /\ UNCHANGED exchanges
       ELSE IF CachedTokenValid
       THEN /\ ftpc' = [ftpc EXCEPT ![t] = "auth_read"]
            /\ UNCHANGED <<bearer, new_token, ftresult, exchanges>>
       ELSE IF ~HasCredentials
       THEN WithAuthToken(t, NoneV) /\ UNCHANGED exchanges
       ELSE /\ ftpc' = [ftpc EXCEPT ![t] = "exchanging"]
            /\ exchanges' = [exchanges EXCEPT ![t][phase[t]] = @ + 1]
            /\ UNCHANGED <<bearer, new_token, ftresult>>
    /\ UNCHANGED <<client_id, client_secret, api_key, access_token, token_expiry,
                   now, issued, calls, phase, replies>>
    /\ UNCHANGED <<aggVars, reqVars, auxVars>>

\* _get_auth_token, line 142: return self.access_token
ReadCachedToken(t) ==
    /\ ftpc[t] = "auth_read"
    /\ WithAuthToken(t, access_token)
    /\ UNCHANGED <<client_id, client_secret, api_key, access_token, token_expiry,
                   now, issued, calls, phase, replies, exchanges>>
    /\ UNCHANGED <<aggVars, reqVars, auxVars>>

\* the token _get_access_token returns for a reply: line 121, or None
ExchangedToken(r, n) ==
    IF r.kind = "token" /\ r.expires_in.t \in {"absent", "int"} THEN Token(n) ELSE NoneV

\* self.access_token after the reply: line 115 runs for every reply with a token
AccessTokenAfter(r, n) == IF r.kind = "token" THEN Token(n) ELSE access_token

\* self.token_expiry after the reply: lines 117-119 store it when expires_in
\* is there (timedelta raises for one that is no number)
TokenExpiryAfter(r, n) ==
    IF r.kind = "token" /\ r.expires_in.t = "int"
    THEN Time(now + r.expires_in.n, n)
    ELSE token_expiry

(***************************************************************************)
(* _get_access_token, lines 100-125: the reply to the token POST.          *)
(***************************************************************************)
TokenReply(t) ==
    /\ ftpc[t] = "exchanging"
    /\ \E r \in TokenResponses :
         /\ issued' = IF r.kind = "token" THEN issued + 1 ELSE issued
         /\ access_token' = AccessTokenAfter(r, issued + 1)
         /\ token_expiry' = TokenExpiryAfter(r, issued + 1)
         /\ WithAuthToken(t, ExchangedToken(r, issued + 1))
    /\ UNCHANGED <<client_id, client_secret, api_key, now, calls, phase, replies,
                   exchanges>>
    /\ UNCHANGED <<aggVars, reqVars, auxVars>>

\* status_code in [200, 206]
IsSuccess(r) == r.kind = "http" /\ r.status \in {200, 206}

\* faulty variant: the refresh does not ask for a cached access_token
CanRefreshWithoutToken == client_id /\ client_secret

\* the condition of line 292: a refresh is attempted
CanRefresh == client_id /\ client_secret /\ access_token # NoneV

\* lines 307-329 for a reply that is not handled as a 401
FTFinish(t, r) ==
    IF IsSuccess(r) /\ r.json THEN FTReturn(t) ELSE FTRaise(t)

(***************************************************************************)
(* search_jobs, lines 286-329: the reply to the first search request.      *)
(***************************************************************************)
SearchReply(t) ==
    /\ ftpc[t] = "requesting"
    /\ \E r \in SearchResponses :
         /\ replies' = [replies EXCEPT ![t] = Append(@, r)]
         /\ IF r.kind = "http" /\ r.status = 401
            THEN IF CanRefresh
                 THEN /\ access_token' = NoneV
                      /\ phase' = [phase EXCEPT ![t] = "refresh"]
                      /\ ftpc' = [ftpc EXCEPT ![t] = "auth"]
                      /\ UNCHANGED ftresult
                 ELSE FTRaise(t) /\ UNCHANGED <<access_token, phase>>
            ELSE FTFinish(t, r) /\ UNCHANGED <<access_token, phase>>
    /\ UNCHANGED <<client_id, client_secret, api_key, token_expiry, now, issued,
                   calls, bearer, new_token, exchanges>>
    /\ UNCHANGED <<aggVars, reqVars, auxVars>>

(***************************************************************************)
(* search_jobs, lines 298-329: the reply to the retried search request.    *)
(* Line 302 raises for any status but 200 and 206.                         *)
(***************************************************************************)
RetryReply(t) ==
    /\ ftpc[t] = "retrying"
    /\ \E r \in SearchResponses :
         /\ replies' = [replies EXCEPT ![t] = Append(@, r)]
         /\ FTFinish(t, r)
    /\ UNCHANGED <<client_id, client_secret, api_key, access_token, token_expiry,
                   now, issued, calls, phase, bearer, new_token, exchanges>>
    /\ UNCHANGED <<aggVars, reqVars, auxVars>>

\* time passes
Tick ==
    /\ now < MaxTime
    /\ now' = now + 1
    /\ UNCHANGED <<client_id, client_secret, api_key, access_token, token_expiry,
                   issued, calls, ftpc, phase, bearer, new_token, replies, exchanges,
                   ftresult>>
    /\ UNCHANGED <<aggVars, reqVars, auxVars>>

\* no France Travail search is modelled in detail
FTQuiet ==
    /\ client_id = FALSE
    /\ client_secret = FALSE
    /\ api_key = FALSE
    /\ access_token = NoneV
    /\ token_expiry = NoneV
    /\ now = 0
    /\ issued = 0
    /\ calls = 0
    /\ ftpc = [t \in Threads |-> "idle"]
    /\ phase = [t \in Threads |-> "first"]
    /\ bearer = [t \in Threads |-> << >>]
    /\ new_token = [t \in Threads |-> NoneV]
    /\ replies = [t \in Threads |-> << >>]
    /\ exchanges = [t \in Threads |-> [first |-> 0, refresh |-> 0]]
    /\ ftresult = [t \in Threads |-> "none"]

\* no aggregator search is under way
AggQuiet ==
    /\ clients = [s \in JobSource |-> Null]
    /\ pc = "idle"
    /\ available_sources = << >>
    /\ task = [s \in JobSource |-> "none"]
    /\ outcome = [s \in JobSource |-> NoOutcome]
    /\ completed = << >>
    /\ results = << >>
    /\ failed_sources = << >>
    /\ invoked = [s \in JobSource |-> 0]
    /\ merged = << >>
    /\ response = NoResponse

vars == <<aggVars, ftVars, reqVars, auxVars>>

Init == AggInit /\ ReqInit /\ FTQuiet /\ AuxQuiet

Next == AggNext

Spec == Init /\ [][Next]_vars

(***************************************************************************)
(* search_jobs with the progress of its calling thread.  The calling       *)
(* thread runs on its own: as_completed (line 159) yields a future as soon *)
(* as one is done, and after the loop nothing waits (lines 175-191).  The  *)
(* workers get no fairness: whether a source answers is up to the source.  *)
(***************************************************************************)
\* SortAndReturn is enabled exactly when its guard holds
SortAndReturnEnabled == pc = "fanin" /\ FanInComplete

\* records in a reply of the searches whose progress is followed
MaxLiveRecords == 1

\* _search_on_source with a reply of at most MaxLiveRecords records
SearchOnSourceBriefly(source) ==
    /\ SearchOnSource(source)
    /\ outcome'[source].kind = "list" => Len(outcome'[source].items) <= MaxLiveRecords

NextLive ==
    \/ SearchNoSource
    \/ Dispatch
    \/ \E source \in JobSource : SearchOnSourceBriefly(source)
    \/ Collect
    \/ SortAndReturn

\* weak fairness of Collect and of SortAndReturn, the latter written out
\* with the guard of the action
SpecLive ==
    /\ Init /\ [][NextLive]_vars
    /\ WF_vars(Collect)
    /\ ([]<>~SortAndReturnEnabled \/ []<><<SortAndReturn>>_vars)

InitFT == AggQuiet /\ ReqQuiet /\ FTInit /\ AuxQuiet

NextFT ==
    \/ \E t \in Threads : FTBeginAlone(t)
    \/ \E t \in Threads : GetAuthToken(t)
    \/ \E t \in Threads : ReadCachedToken(t)
    \/ \E t \in Threads : TokenReply(t)
    \/ \E t \in Threads : SearchReply(t)
    \/ \E t \in Threads : RetryReply(t)
    \/ Tick

SpecFT == InitFT /\ [][NextFT]_vars

(***************************************************************************)
(* Two searches that share one FranceTravailClient configured with client  *)
(* id and client secret and run at the same time: each thread calls        *)
(* search_jobs once, and the steps of the two calls interleave.            *)
(***************************************************************************)
\* thread t calls search_jobs, whatever the other thread is doing
FTBeginConcurrent(t) ==
    /\ ftresult[t] = "none"
    /\ FTBegin(t)

InitFTConcurrent == InitFT /\ client_id /\ client_secret

NextFTConcurrent ==
    \/ \E t \in Threads : FTBeginConcurrent(t)
    \/ \E t \in Threads : GetAuthToken(t)
    \/ \E t \in Threads : ReadCachedToken(t)
    \/ \E t \in Threads : TokenReply(t)
    \/ \E t \in Threads : SearchReply(t)
    \/ \E t \in Threads : RetryReply(t)
    \/ Tick

SpecFTConcurrent == InitFTConcurrent /\ [][NextFTConcurrent]_vars

(***************************************************************************)
(* search_jobs of the agent with the search of its FranceTravailClient in  *)
(* detail: the worker of the France Travail task runs the client's         *)
(* search_jobs, and what that call does is the outcome of the task.  The   *)
(* client lives as long as the agent, so the searches of one agent follow  *)
(* one another on the same client.                                         *)
(***************************************************************************)
\* the thread of the France Travail task
Worker == "t1"

\* search_jobs calls made on one agent
MaxSearches == 2

\* the worker calls client.search_jobs (job_searcher.py, line 209)
FranceTravailTaskCalls ==
    /\ task[FRANCE_TRAVAIL] = "running"
    /\ ftresult[Worker] = "none"
    /\ FTBegin(Worker)

\* the client's call has returned or raised: so does _search_on_source
FranceTravailTaskEnds ==
    /\ ftpc[Worker] = "idle"
    /\ ftresult[Worker] # "none"
    /\ SearchOnSource(FRANCE_TRAVAIL)
    /\ outcome'[FRANCE_TRAVAIL] = Raised <=> ftresult[Worker] = "raised"

\* the caller calls search_jobs of the same agent once more
SearchAgain ==
    /\ pc = "returned"
    /\ calls < MaxSearches
    /\ pc' = "idle"
    /\ available_sources' = << >>
    /\ task' = [s \in JobSource |-> "none"]
    /\ outcome' = [s \in JobSource |-> NoOutcome]
    /\ completed' = << >>
    /\ results' = << >>
    /\ failed_sources' = << >>
    /\ invoked' = [s \in JobSource |-> 0]
    /\ merged' = << >>
    /\ response' = NoResponse
    /\ call_args' = [s \in JobSource |-> << >>]
    /\ ftresult' = [ftresult EXCEPT ![Worker] = "none"]
    /\ UNCHANGED <<clients, query, max_workers>>
    /\ UNCHANGED <<client_id, client_secret, api_key, access_token, token_expiry,
                   now, issued, calls, ftpc, phase, bearer, new_token, replies,
                   exchanges>>
    /\ UNCHANGED auxVars

\* an agent with the registry of lines 47-53: the France Travail client
\* and None for the three other sources
InitAgentFT ==
    /\ AggInit
    /\ clients = [s \in JobSource |-> IF s = FRANCE_TRAVAIL THEN Client ELSE Null]
    /\ ReqInit
    /\ FTInit
    /\ AuxQuiet

NextAgentFT ==
    \/ Dispatch
    \/ FranceTravailTaskCalls
    \/ GetAuthToken(Worker)
    \/ ReadCachedToken(Worker)
    \/ TokenReply(Worker)
    \/ SearchReply(Worker)
    \/ RetryReply(Worker)
    \/ Tick
    \/ FranceTravailTaskEnds
    \/ Collect
    \/ SortAndReturn
    \/ SearchAgain

SpecAgentFT == InitAgentFT /\ [][NextAgentFT]_vars

(***************************************************************************)
(* JobSearcherAgent.__init__, lines 28-53, and the constructors of the     *)
(* source clients: the registry as the agent builds it from the            *)
(* environment, followed by one search_jobs call.                          *)
(***************************************************************************)
EnvNames ==
    {"OPENAI_API_KEY", "FRANCE_TRAVAIL_CLIENT_ID", "FRANCE_TRAVAIL_CLIENT_SECRET",
     "FRANCE_TRAVAIL_API_KEY", "LINKEDIN_USERNAME", "LINKEDIN_PASSWORD",
     "INDEED_API_KEY", "GLASSDOOR_API_KEY"}

\* os.getenv(name) is truthy
Envs == [EnvNames -> BOOLEAN]

\* whether client_class() raises ValueError: FranceTravailClient.__init__
\* prints a warning and returns, the other three raise
ConstructorRaises(source, e) ==
    CASE source = FRANCE_TRAVAIL -> FALSE
      [] source = LINKEDIN -> ~e["LINKEDIN_USERNAME"] \/ ~e["LINKEDIN_PASSWORD"]
      [] source = INDEED -> ~e["INDEED_API_KEY"]
      [] source = GLASSDOOR -> ~e["GLASSDOOR_API_KEY"]

\* _init_client(client_class): the instance, or None when ValueError is raised
InitClient(source, e) == IF ConstructorRaises(source, e) THEN Null ELSE Client

\* self.clients of lines 47-53: only FranceTravailClient goes through
\* _init_client, the three other entries are the literal None
Registry(e) ==
    [s \in JobSource |-> IF s = FRANCE_TRAVAIL THEN InitClient(s, e) ELSE Null]

\* the credentials source needs for a search are in the environment
CredentialsInEnv(source, e) ==
    CASE source = FRANCE_TRAVAIL ->
             \/ e["FRANCE_TRAVAIL_API_KEY"]
             \/ e["FRANCE_TRAVAIL_CLIENT_ID"] /\ e["FRANCE_TRAVAIL_CLIENT_SECRET"]
      [] source = LINKEDIN -> e["LINKEDIN_USERNAME"] /\ e["LINKEDIN_PASSWORD"]
      [] source = INDEED -> e["INDEED_API_KEY"]
      [] source = GLASSDOOR -> e["GLASSDOOR_API_KEY"]

\* no agent has been constructed yet
RegInit ==
    /\ env \in Envs
    /\ clients = [s \in JobSource |-> Null]
    /\ pc = "new"
    /\ available_sources = << >>
    /\ task = [s \in JobSource |-> "none"]
    /\ outcome = [s \in JobSource |-> NoOutcome]
    /\ completed = << >>
    /\ results = << >>
    /\ failed_sources = << >>
    /\ invoked = [s \in JobSource |-> 0]
    /\ merged = << >>
    /\ response = NoResponse

\* JobSearcherAgent(): line 37 raises without the OpenAI key; else the
\* registry is built, and FranceTravailClient.__init__ (lines 47-49) reads
\* its credentials
AgentInit ==
    /\ pc = "new"
    /\ IF ~env["OPENAI_API_KEY"]
       THEN /\ pc' = "init_raised"
            /\ UNCHANGED <<clients, client_id, client_secret, api_key>>
       ELSE /\ pc' = "idle"
            /\ clients' = Registry(env)
            /\ client_id' = env["FRANCE_TRAVAIL_CLIENT_ID"]
            /\ client_secret' = env["FRANCE_TRAVAIL_CLIENT_SECRET"]
            /\ api_key' = env["FRANCE_TRAVAIL_API_KEY"]
    /\ UNCHANGED <<available_sources, task, outcome, completed, results,
                   failed_sources, invoked, merged, response>>
    /\ UNCHANGED <<access_token, token_expiry, now, issued, calls, ftpc, phase,
                   bearer, new_token, replies, exchanges, ftresult>>
    /\ UNCHANGED <<reqVars, auxVars>>

\* _get_auth_token can return a token on a client without a cached one:
\* the API key of line 135, or the credentials line 78 asks for
CanAuthenticate == api_key \/ (client_id /\ client_secret)

\* _search_on_source on the registry __init__ built: the France Travail
\* client's search_jobs raises at line 169 when it can get no token
SearchOnConfiguredSource(source) ==
    /\ SearchOnSource(source)
    /\ source = FRANCE_TRAVAIL /\ ~CanAuthenticate => outcome'[source] = Raised

InitReg == RegInit /\ ReqInit /\ FTQuiet /\ CliQuiet /\ NormQuiet

\* the raise of line 145 needs a registry without any client
NextReg ==
    \/ AgentInit
    \/ Dispatch
    \/ \E source \in JobSource : SearchOnConfiguredSource(source)
    \/ Collect
    \/ SortAndReturn

SpecReg == InitReg /\ [][NextReg]_vars

(***************************************************************************)
(* Character strings.  Where the code looks inside a string (the location, *)
(* the job title) the string is Str(s) with s its sequence of characters;  *)
(* the character "e-acute" stands for the accented e of "Interim".         *)
(***************************************************************************)
Digits == {"0", "1", "2", "3", "4", "5", "6", "7", "8", "9"}

\* s.lower(), on the letters A to Z
Lower(s) ==
    LET UpperCase == <<"A", "B", "C", "D", "E", "F", "G", "H", "I", "J", "K", "L", "M",
                       "N", "O", "P", "Q", "R", "S", "T", "U", "V", "W", "X", "Y", "Z">>
        LowerCase == <<"a", "b", "c", "d", "e", "f", "g", "h", "i", "j", "k", "l", "m",
                       "n", "o", "p", "q", "r", "s", "t", "u", "v", "w", "x", "y", "z">>
        LowerChar(c) ==
            IF \E k \in DOMAIN UpperCase : UpperCase[k] = c
            THEN LowerCase[CHOOSE k \in DOMAIN UpperCase : UpperCase[k] = c]
            ELSE c
    IN [i \in 1..Len(s) |-> LowerChar(s[i])]

\* sub occurs in s at position i
SubAt(s, sub, i) ==
    /\ i + Len(sub) - 1 <= Len(s)
    /\ \A k \in 1..Len(sub) : s[i + k - 1] = sub[k]

\* sub in s
Contains(s, sub) == \E i \in 1..(Len(s) + 1) : SubAt(s, sub, i)

RECURSIVE Remove(_, _)
\* s.replace(sub, ""): the occurrences are removed from left to right
Remove(s, sub) ==
    IF s = << >> THEN << >>
    ELSE IF SubAt(s, sub, 1) THEN Remove(SubSeq(s, Len(sub) + 1, Len(s)), sub)
    ELSE <<Head(s)>> \o Remove(Tail(s), sub)

RECURSIVE LStrip(_)
LStrip(s) == IF s # << >> /\ Head(s) = " " THEN LStrip(Tail(s)) ELSE s

\* s.strip()
Strip(s) == Reverse(LStrip(Reverse(LStrip(s))))

(***************************************************************************)
(* FranceTravailClient.search_jobs, lines 171-271: the parameters of the   *)
(* search request.                                                         *)
(***************************************************************************)
\* the keys of contract_keywords, in the order of the dictionary
ContractKeywords ==
    << <<"S", "t", "a", "g", "e">>,
       <<"A", "l", "t", "e", "r", "n", "a", "n", "c", "e">>,
       <<"C", "D", "D">>,
       <<"C", "D", "I">>,
       <<"I", "n", "t", "e-acute", "r", "i", "m">>,
       <<"F", "r", "e", "e", "l", "a", "n", "c", "e">>,
       <<"S", "a", "i", "s", "o", "n", "n", "i", "e", "r">> >>

\* lines 193-200: the first key of contract_keywords found in the title,
\* whatever the case (0: none)
DetectedContract(job_title) ==
    LET hits == {k \in DOMAIN ContractKeywords :
                    Contains(Lower(job_title), Lower(ContractKeywords[k]))}
    IN IF hits = {} THEN 0 ELSE CHOOSE k \in hits : \A h \in hits : k <= h

\* lines 172-204: motsCles; line 203 removes the word "technique"
MotsCles(job_title, job_keywords) ==
    IF Truthy(job_keywords) THEN job_keywords.s
    ELSE LET k == DetectedContract(job_title.s)
             job_title_clean ==
                 IF k = 0 THEN job_title.s
                 ELSE Strip(Remove(Lower(job_title.s), Lower(ContractKeywords[k])))
         IN Strip(Remove(job_title_clean, <<"t", "e", "c", "h", "n", "i", "q", "u", "e">>))

\* (?<!\d)(\d{5})(?!\d) matches at position i of s
\* faulty variant: the pattern \d{5} without its lookarounds, five digits
\* in a row anywhere
FiveDigitsAt(s, i) ==
    /\ i + 4 <= Len(s)
    /\ \A k \in 0..4 : s[i + k] \in Digits

\* the pattern (?<!\d)(\d{5})(?!\d) matches at position i of s
PostalCodeAt(s, i) ==
    /\ i + 4 <= Len(s)
    /\ \A k \in 0..4 : s[i + k] \in Digits
    /\ i = 1 \/ s[i - 1] \notin Digits
    /\ i + 5 > Len(s) \/ s[i + 5] \notin Digits

RECURSIVE SearchPostalCode(_, _)
\* re.search(r'(?<!\d)(\d{5})(?!\d)', s): where the first match starts from
\* position i on, 0 when there is none
SearchPostalCode(s, i) ==
    IF i > Len(s) THEN 0
    ELSE IF PostalCodeAt(s, i) THEN i
    ELSE SearchPostalCode(s, i + 1)

\* the keys of line 242 with the values of dept_codes, lines 244-252
DeptCodes ==
    << <<<<"p", "a", "r", "i", "s">>, <<"7", "5">>>>,
       <<<<"l", "y", "o", "n">>, <<"6", "9">>>>,
       <<<<"m", "a", "r", "s", "e", "i", "l", "l", "e">>, <<"1", "3">>>>,
       <<<<"t", "o", "u", "l", "o", "u", "s", "e">>, <<"3", "1">>>>,
       <<<<"n", "i", "c", "e">>, <<"0", "6">>>>,
       <<<<"b", "o", "r", "d", "e", "a", "u", "x">>, <<"3", "3">>>>,
       <<<<"l", "i", "l", "l", "e">>, <<"5", "9">>>> >>

\* faulty variant: the location is stripped of surrounding whitespace first
DepartementStripped(location) ==
    IF ~Truthy(location) THEN Absent
    ELSE LET s == Strip(location.s)
             p == SearchPostalCode(s, 1)
         IN IF p # 0 THEN Str(SubSeq(s, p, p + 1))
            ELSE IF Len(s) = 2 /\ \A i \in 1..2 : s[i] \in Digits THEN Str(s)
            ELSE IF \E k \in DOMAIN DeptCodes : DeptCodes[k][1] = Lower(s)
                 THEN Str(DeptCodes[CHOOSE k \in DOMAIN DeptCodes :
                                       DeptCodes[k][1] = Lower(s)][2])
            ELSE Str(<<"7", "5">>)

\* lines 224-260: params["departement"], Absent when the key is not set
Departement(location) ==
    IF ~Truthy(location) THEN Absent
    ELSE LET s == location.s
             p == SearchPostalCode(s, 1)
         IN IF p # 0 THEN Str(SubSeq(s, p, p + 1))
            ELSE IF Len(s) = 2 /\ \A i \in 1..2 : s[i] \in Digits THEN Str(s)
            ELSE IF \E k \in DOMAIN DeptCodes : DeptCodes[k][1] = Lower(s)
                 THEN Str(DeptCodes[CHOOSE k \in DOMAIN DeptCodes :
                                       DeptCodes[k][1] = Lower(s)][2])
            ELSE Str(<<"7", "5">>)

\* faulty variant: the former logic of lines 269-271, the keywords appended
\* to motsCles
FranceTravailParamsWithKeywords(args) ==
    [motsCles |-> IF Truthy(args.keywords)
                  THEN [t |-> "str", s |-> MotsCles(args.job_title, args.job_keywords),
                        more |-> args.keywords.items]
                  ELSE Str(MotsCles(args.job_title, args.job_keywords)),
     range |-> [first |-> 0, last |-> args.limit - 1],
     departement |-> Departement(args.location)]

\* lines 212-271: params; range is f"0-{limit-1}", kept as its two numbers;
\* the keywords are only printed (lines 265-267)
FranceTravailParams(args) ==
    [motsCles |-> Str(MotsCles(args.job_title, args.job_keywords)),
     range |-> [first |-> 0, last |-> args.limit - 1],
     departement |-> Departement(args.location)]

(***************************************************************************)
(* One call of search_jobs on one of the HTTP clients (FranceTravailClient *)
(* lines 147-329, IndeedClient lines 470-556, GlassdoorClient lines        *)
(* 569-656): the request it builds, the reply of the job board, the value  *)
(* it returns.  The job board is free in what it answers.                  *)
(***************************************************************************)
\* longest location string of the exhaustive part of the inputs
MaxLocLen == 6
\* largest limit argument
MaxLimit == 2
\* largest number of records in a reply
MaxBody == 3

HttpClients == {FRANCE_TRAVAIL, INDEED, GLASSDOOR}

\* locations as users write them, and every string of digits and letters up
\* to MaxLocLen characters
Locations ==
    { NoneV, Str(<< >>),
      Str(<<"7", "5", "0", "0", "1">>), Str(<<"6", "9">>), Str(<<"L", "y", "o", "n">>),
      Str(<<"u", "n", "k", "n", "o", "w", "n", " ", "c", "i", "t", "y">>),
      Str(<<"L", "Y", "O", "N">>), Str(<<"n", "i", "c", "e">>),
      Str(<<"P", "a", "r", "i", "s", " ", "7", "5", "0", "0", "1">>),
      Str(<<" ", "L", "y", "o", "n">>) }
    \cup {Str(s) : s \in SeqsUpTo({"6", "9", "x"}, MaxLocLen)}

\* the arguments of FranceTravailClient.search_jobs
SearchJobsArgs(job_title, location, keywords, limit, job_keywords) ==
    [job_title |-> job_title, location |-> location, radius |-> 50,
     keywords |-> keywords, limit |-> limit, job_keywords |-> job_keywords]

\* the calls made: every location with one title, and a few locations with
\* every title, keyword list and limit
ClientArgs(source) ==
    LET JobTitles ==
            { Str(<<"D", "e", "v">>),
              Str(<<"S", "t", "a", "g", "e", " ", "d", "e", "v">>),
              Str(<<"D", "e", "v", " ", "t", "e", "c", "h", "n", "i", "q", "u", "e",
                    " ", "C", "D", "I">>) }
        KeywordLists == {NoneV, List(<<Txt("python"), Txt("sql")>>)}
    IN { SearchJobsArgs(Str(<<"D", "e", "v">>), l, NoneV, 1, NoneV) :
           l \in IF source = FRANCE_TRAVAIL THEN Locations ELSE {} }
       \cup
       { SearchJobsArgs(jt, l, k, n, jk) :
           jt \in JobTitles,
           l \in {NoneV, Str(<<"L", "y", "o", "n">>), Str(<<"7", "5", "0", "0", "1">>)},
           k \in KeywordLists,
           n \in 1..MaxLimit,
           jk \in IF source = FRANCE_TRAVAIL
                  THEN {NoneV, Str(<<"d", "a", "t", "a">>)} ELSE {NoneV} }

\* n raw records of a reply
Records(n) == [i \in 1..n |-> [t |-> "dict", id |-> i]]

\* the replies of a job board: the transport fails, or a status with a body
\* that is JSON or not; the value of the body's record list key
\* ("resultats", "results", "jobListings") is missing, null, a list, or a
\* dictionary holding the list (an error status comes with a body that is
\* no JSON or with a list of one record)
ClientReplies ==
    LET RecordValues ==
            {Absent, NoneV, [t |-> "dict", resultats |-> List(Records(1))]}
            \cup {List(Records(n)) : n \in 0..MaxBody}
    IN { [kind |-> "exception"] }
       \cup { [kind |-> "http", status |-> s, json |-> FALSE] :
                s \in {200, 206, 401, 500} }
       \cup { [kind |-> "http", status |-> s, json |-> TRUE, records |-> v] :
                s \in {200, 206}, v \in RecordValues }
       \cup { [kind |-> "http", status |-> s, json |-> TRUE, records |-> List(Records(1))] :
                s \in {401, 500} }

CliInit ==
    /\ csource \in HttpClients
    /\ cargs \in ClientArgs(csource)
    /\ cpc = "idle"
    /\ crequests = << >>
    /\ creplies = << >>
    /\ cret = NoneV

\* the call raises
ClientRaise == cpc' = "raised" /\ UNCHANGED cret

\* the call returns value
ClientReturn(value) == cpc' = "returned" /\ cret' = value

\* FranceTravailClient.search_jobs, lines 164-286: without a token the call
\* raises, else the parameters are built and the request is sent
FranceTravailSearchJobs ==
    /\ csource = FRANCE_TRAVAIL
    /\ cpc = "idle"
    /\ \E auth_token \in {NoneV, Token(1)} :
         IF auth_token = NoneV
         THEN ClientRaise /\ UNCHANGED crequests
         ELSE /\ crequests' = <<[params |-> FranceTravailParams(cargs),
                                 bearer |-> auth_token]>>
              /\ cpc' = "sent"
              /\ UNCHANGED cret
    /\ UNCHANGED <<csource, cargs, creplies>>
    /\ UNCHANGED <<aggVars, ftVars, reqVars, env, norm_calls>>

\* lines 311-324: the value returned for a JSON body
FranceTravailResults(r) ==
    IF r.records.t = "absent" THEN List(<< >>)
    ELSE IF r.records.t = "dict" THEN r.records.resultats
    ELSE r.records

\* lines 307-329 for the reply in hand
FranceTravailFinish(r) ==
    IF IsSuccess(r) /\ r.json THEN ClientReturn(FranceTravailResults(r)) ELSE ClientRaise

\* lines 286-329: the reply to the first request.  On a 401 the client
\* refreshes its token if line 292 allows it, and sends the request again
\* with the new token if it got one
FranceTravailReply ==
    /\ csource = FRANCE_TRAVAIL
    /\ cpc = "sent"
    /\ \E r \in ClientReplies :
         /\ creplies' = Append(creplies, r)
         /\ IF r.kind = "http" /\ r.status = 401
            THEN \E fresh_token \in {NoneV, Token(2)} :
                   IF fresh_token = NoneV
                   THEN ClientRaise /\ UNCHANGED crequests
                   ELSE /\ crequests' = Append(crequests,
                                               [params |-> crequests[1].params,
                                                bearer |-> fresh_token])
                        /\ cpc' = "resent"
                        /\ UNCHANGED cret
            ELSE FranceTravailFinish(r) /\ UNCHANGED crequests
    /\ UNCHANGED <<csource, cargs>>
    /\ UNCHANGED <<aggVars, ftVars, reqVars, env, norm_calls>>

\* lines 298-329: the reply to the request sent again
FranceTravailRetryReply ==
    /\ csource = FRANCE_TRAVAIL
    /\ cpc = "resent"
    /\ \E r \in ClientReplies :
         /\ creplies' = Append(creplies, r)
         /\ FranceTravailFinish(r)
    /\ UNCHANGED <<csource, cargs, crequests>>
    /\ UNCHANGED <<aggVars, ftVars, reqVars, env, norm_calls>>

\* IndeedClient.search_jobs, lines 487-498, and GlassdoorClient.search_jobs,
\* lines 586-599: the parameters; l / city is set for a location that is
\* neither None nor empty
PlainParams(args) ==
    [q |-> args.job_title, limit |-> args.limit, radius |-> args.radius,
     l |-> IF Truthy(args.location) THEN args.location ELSE Absent]

\* lines 486-511 and 585-611: the request is sent
PlainSearchJobs(source) ==
    /\ csource = source
    /\ source \in {INDEED, GLASSDOOR}
    /\ cpc = "idle"
    /\ crequests' = <<[params |-> PlainParams(cargs)]>>
    /\ cpc' = "sent"
    /\ UNCHANGED <<csource, cargs, creplies, cret>>
    /\ UNCHANGED <<aggVars, ftVars, reqVars, env, norm_calls>>

\* the JobPosting built from one record of a reply (lines 537-552, 637-652)
PlainPosting(source, job) == [job_id |-> job.id, source |-> source]

\* lines 514-556 and 614-656: any status but 200 raises; so do a body that
\* is no JSON and a record list that cannot be iterated as dictionaries;
\* else one posting is built from every record
PlainReply(source) ==
    /\ csource = source
    /\ source \in {INDEED, GLASSDOOR}
    /\ cpc = "sent"
    /\ \E r \in ClientReplies :
         /\ creplies' = Append(creplies, r)
         /\ IF r.kind # "http" THEN ClientRaise
            ELSE IF r.status # 200 THEN ClientRaise
            ELSE IF ~r.json THEN ClientRaise
            ELSE IF r.records.t = "absent" THEN ClientReturn(List(<< >>))
            ELSE IF r.records.t # "list" THEN ClientRaise
            ELSE ClientReturn(List([i \in DOMAIN r.records.items |->
                                      PlainPosting(source, r.records.items[i])]))
    /\ UNCHANGED <<csource, cargs, crequests>>
    /\ UNCHANGED <<aggVars, ftVars, reqVars, env, norm_calls>>

InitClientCall == AggQuiet /\ ReqQuiet /\ FTQuiet /\ EnvQuiet /\ NormQuiet /\ CliInit

NextClientCall ==
    \/ FranceTravailSearchJobs
    \/ FranceTravailReply
    \/ FranceTravailRetryReply
    \/ \E source \in JobSource : PlainSearchJobs(source)
    \/ \E source \in JobSource : PlainReply(source)

SpecClient == InitClientCall /\ [][NextClientCall]_vars

(***************************************************************************)
(* _process_france_travail_results on its own (job_searcher.py lines       *)
(* 220-289): the agent normalizes a batch of raw records, and later        *)
(* another one.                                                            *)
(***************************************************************************)
\* a record with every key the normalization reads
FullRecord ==
    [Dict(1, D10, Entreprise(Txt("Acme")))
     EXCEPT !.intitule = Txt("Dev"),
            !.description = Txt("Build things"),
            !.origineOffre = OrigineOffre(Txt("https://example.org/1")),
            !.lieuTravail = LieuTravail(Txt("Lyon"), Txt("69003")),
            !.competences = List(<<Labelled(Txt("python")), EmptyDict>>),
            !.typeContrat = Txt("CDI"),
            !.salaire = Labelled(Txt("30k")),
            !.experienceExige = Txt("D"),
            !.formationExige = Txt("Bac+5")]

\* raw records as the job board may send them: complete, with optional keys
\* missing, with empty sub-objects, and malformed in one place
RawRecords ==
    { FullRecord,
      Dict(2, Absent, Absent),
      [Dict(3, D2, Entreprise(Absent))
       EXCEPT !.origineOffre = EmptyDict, !.lieuTravail = EmptyDict,
              !.competences = List(<< >>), !.salaire = EmptyDict],
      Txt("not a record"),
      Dict(5, D10, NoneV),
      [Dict(6, D2, Absent) EXCEPT !.lieuTravail = Txt("Lyon")],
      [Dict(7, D2, Absent) EXCEPT !.competences = List(<<Txt("python")>>)],
      [Dict(8, D2, Absent) EXCEPT !.salaire = NoneV] }

\* the batches: up to MaxRecords raw records
Batches == SeqsUpTo(RawRecords, MaxRecords)

\* one call and what it returned
NormCall(batch) ==
    [results |-> batch, postings |-> ProcessFranceTravailResults(batch)]

\* the agent's first call of _process_france_travail_results
ProcessBatch ==
    /\ norm_calls = << >>
    /\ \E batch \in Batches : norm_calls' = <<NormCall(batch)>>
    /\ UNCHANGED <<aggVars, ftVars, reqVars, env, cliVars>>

\* a later call by the same agent
ProcessAnotherBatch ==
    /\ Len(norm_calls) = 1
    /\ \E batch \in Batches : norm_calls' = Append(norm_calls, NormCall(batch))
    /\ UNCHANGED <<aggVars, ftVars, reqVars, env, cliVars>>

InitNorm == AggQuiet /\ ReqQuiet /\ FTQuiet /\ EnvQuiet /\ CliQuiet /\ NormQuiet

NextNorm == ProcessBatch \/ ProcessAnotherBatch

SpecNorm == InitNorm /\ [][NextNorm]_vars

(***************************************************************************)
(* Properties of search_jobs (checked under Spec).                         *)
(***************************************************************************)
Returned_ == pc = "returned"

\* the sources whose task raised
TaskRaised == {s \in JobSource : outcome[s].kind = "raised"}

\* the sources whose task returned something the fan-in could not process
TaskUnprocessable == {s \in JobSource : outcome[s].kind = "nonlist"}

\* the sources whose task returned a list
TaskReturnedList == {s \in JobSource : outcome[s].kind = "list"}

\* every posting source s handed over is in xs (for France Travail: the
\* posting of every raw record whose normalization does not raise)
AllPresent(s, xs) ==
    \A i \in DOMAIN outcome[s].items :
        IF s = FRANCE_TRAVAIL
        THEN outcome[s].items[i].t = "dict" /\ outcome[s].items[i].entreprise.t # "none"
             => \E p \in Range(xs) : p.source = s /\ p.job_id = outcome[s].items[i].id
        ELSE outcome[s].items[i] \in Range(xs)

\* C1 as stated: failed_sources holds exactly the sources whose task raised,
\* results holds only postings of sources that did not fail, and the
\* postings of the sources that succeeded are all present.
C1_AsStated ==
    Returned_ =>
        /\ Range(response.failed_sources) = TaskRaised
        /\ \A p \in Range(response.results) : p.source \notin TaskRaised
        /\ \A s \in JobSource \ TaskRaised :
             outcome[s].kind = "list" => AllPresent(s, response.results)

\* C1 (amended): failed_sources holds exactly the sources whose task raised
\* or whose returned value could not be processed in the fan-in (a result
\* that is no list); results holds only postings of the other sources, and
\* every posting of those is present.
C1_Isolation ==
    Returned_ =>
        /\ Range(response.failed_sources) = TaskRaised \cup TaskUnprocessable
        /\ \A p \in Range(response.results) :
             p.source \in TaskReturnedList /\ p.source \notin Range(response.failed_sources)
        /\ \A s \in TaskReturnedList : AllPresent(s, response.results)

\* exactly one source failed because its task raised, another succeeded
\* and its postings are in the response
C1_Witness ==
    /\ Returned_
    /\ Cardinality(TaskRaised) = 1
    /\ Len(response.failed_sources) = 1
    /\ \E s \in TaskReturnedList : outcome[s].items # << >>
    /\ response.results # << >>

\* C2: no failure of a source task leaves search_jobs as an exception: the
\* call raises only when no source is available; while fanning in, a task
\* is still running, a future waits to be collected, or every future has
\* been collected and the response is built; what it returns is a response.
C2_NoPropagation ==
    /\ pc = "raised" => \A s \in JobSource : clients[s] = Null
    /\ pc = "fanin" =>
          \/ \E s \in JobSource : task[s] = "running"
          \/ completed # << >>
          \/ \A s \in Range(available_sources) : task[s] = "collected"
    /\ Returned_ => response.status = "returned"

\* every available source failed and search_jobs returned a response
C2_Witness ==
    /\ Returned_
    /\ Len(response.available_sources) >= 2
    /\ Range(response.failed_sources) = Range(response.available_sources)
    /\ TaskRaised # {}

\* C3: with no client configured search_jobs raises, returns no response,
\* dispatches no task and invokes no client.
C3_NoSourceAvailable ==
    (\A s \in JobSource : clients[s] = Null) =>
        /\ pc \in {"idle", "raised"}
        /\ pc = "idle" => ENABLED SearchNoSource
        /\ response = NoResponse
        /\ results = << >>
        /\ \A s \in JobSource : task[s] = "none" /\ invoked[s] = 0

\* the call has raised the no-source error
C3_Witness == pc = "raised" /\ \A s \in JobSource : clients[s] = Null

\* C4: the response is built only after every dispatched task has resolved
\* and been collected, and each one's outcome is in results or in
\* failed_sources.
C4_FanInBarrier ==
    Returned_ =>
        /\ completed = << >>
        /\ \A s \in JobSource :
             clients[s] # Null =>
                /\ task[s] = "collected"
                /\ outcome[s] # NoOutcome
                /\ \/ s \in Range(response.failed_sources)
                   \/ outcome[s].kind = "list" /\ AllPresent(s, response.results)

\* two tasks were dispatched and the response carries postings of both
C4_Witness ==
    /\ Returned_
    /\ Len(response.available_sources) = 2
    /\ \A s \in Range(response.available_sources) :
         \E p \in Range(response.results) : p.source = s

\* C5 as stated: available_sources and failed_sources of a response are
\* disjoint.
C5_AsStated ==
    Returned_ =>
        Range(response.available_sources) \cap Range(response.failed_sources) = {}

\* C5 (amended): available_sources holds every source that was dispatched
\* (client non-null), whether it succeeded or failed, and failed_sources is
\* a subset of it: the two are disjoint only when no source failed.
C5_FailedWithinAvailable ==
    Returned_ =>
        /\ Range(response.available_sources) = {s \in JobSource : clients[s] # Null}
        /\ Range(response.failed_sources) \subseteq Range(response.available_sources)
        /\ Range(response.failed_sources) = TaskRaised \cup TaskUnprocessable

\* a response names a failed source in both lists
C5_Witness ==
    /\ Returned_
    /\ \E s \in TaskRaised :
         /\ s \in Range(response.failed_sources)
         /\ s \in Range(response.available_sources)

\* C6: total_count of a response is the length of its results.
C6_TotalCount == Returned_ => response.total_count = Len(response.results)

\* a response with at least three postings
C6_Witness == Returned_ /\ response.total_count >= 3 /\ Len(response.results) >= 3

\* the string a posted_date sorts as: itself, or "" for None
DateString(p) == IF p.posted_date.t = "str" THEN p.posted_date.s ELSE << >>

\* every posting of xs has a string or None as posted_date
AllDatesStrings(xs) == \A p \in Range(xs) : p.posted_date.t \in {"str", "none"}

\* C7 as stated: results are in descending lexicographic order of
\* posted_date (read here on the postings whose sort key is a string: no
\* such posting comes before one with a greater posted_date).
C7_AsStated ==
    Returned_ =>
        \A i, j \in DOMAIN response.results :
            /\ i < j
            /\ SortKey(response.results[i]).t = "str"
            /\ SortKey(response.results[j]).t = "str"
            => ~LexLt(SortKey(response.results[i]).s, SortKey(response.results[j]).s)

\* C7 (amended): when every merged posting's posted_date is a string or
\* None, results are sorted by posted_date descending under lexicographic
\* comparison, None and "" comparing as "": each posting's date is >= the
\* next one's, and results[0] carries the greatest.
C7_SortedDescending ==
    Returned_ /\ AllDatesStrings(response.results) =>
        /\ \A i \in 1..(Len(response.results) - 1) :
             ~LexLt(DateString(response.results[i]), DateString(response.results[i + 1]))
        /\ \A j \in DOMAIN response.results :
             ~LexLt(DateString(response.results[1]), DateString(response.results[j]))

\* the sort moved "2" ahead of "10" and a None date to the end
C7_Witness ==
    /\ Returned_
    /\ AllDatesStrings(response.results)
    /\ Len(response.results) >= 3
    /\ merged # response.results
    /\ response.results[1].posted_date = D2
    /\ \E i \in DOMAIN response.results : response.results[i].posted_date = D10
    /\ response.results[Len(response.results)].posted_date = NoneV

\* xs is in descending order of the sort key
SortedDescending(xs) ==
    \A i \in 1..(Len(xs) - 1) :
        /\ Comparable(SortKey(xs[i]), SortKey(xs[i + 1]))
        /\ ~KeyLt(SortKey(xs[i]), SortKey(xs[i + 1]))

\* C8: whatever the posted_date values, and also when the sort raises,
\* search_jobs returns every merged posting, either sorted or in the
\* unsorted merge order.
C8_AsStated ==
    Returned_ =>
        /\ Len(response.results) = Len(merged)
        /\ Range(response.results) = Range(merged)
        /\ response.results = merged \/ SortedDescending(response.results)

(***************************************************************************)
(* Properties of FranceTravailClient (checked under SpecFT: the searches   *)
(* on the client run one at a time).                                       *)
(***************************************************************************)
\* the search of thread t has ended
Ended(t) == ftpc[t] = "idle" /\ ftresult[t] # "none"

\* the first search request of thread t was answered 401
First401(t) ==
    /\ Len(replies[t]) >= 1
    /\ replies[t][1].kind = "http"
    /\ replies[t][1].status = 401

\* the retry of thread t was answered, and not with 200 or 206
RetryFailed(t) ==
    /\ Len(replies[t]) = 2
    /\ ~(replies[t][2].kind = "http" /\ replies[t][2].status \in {200, 206})

\* C9 as stated: a search answered 401 on a client that has its client id
\* and client secret performs exactly one token refresh and exactly one
\* retry, and raises if the retry fails; no search sends more than two
\* search requests.
C9_AsStated ==
    \A t \in Threads :
        /\ Len(bearer[t]) <= 2
        /\ Ended(t) /\ First401(t) /\ client_id /\ client_secret =>
             /\ exchanges[t].refresh = 1
             /\ Len(bearer[t]) = 2
             /\ RetryFailed(t) => ftresult[t] = "raised"

\* C9 (amended): in a search that runs alone on its client and is answered
\* 401, if no static API key is configured (the bearer was the client's own
\* cached OAuth token) the client clears the cached token and performs
\* exactly one token exchange; if the exchange yields a token it sends
\* exactly one retry with it and raises when the retry is not answered 200
\* or 206; if the exchange yields no token it sends no retry and raises.
\* With a static API key a 401 raises without refresh or retry.  No search
\* sends more than two search requests.
C9_RefreshOnce ==
    \A t \in Threads :
        /\ Len(bearer[t]) <= 2
        /\ exchanges[t].refresh <= 1
        /\ ~First401(t) => Len(bearer[t]) <= 1 /\ exchanges[t].refresh = 0
        /\ Ended(t) /\ First401(t) /\ ~api_key =>
             /\ exchanges[t].refresh = 1
             /\ new_token[t] # NoneV <=> Len(bearer[t]) = 2
             /\ Len(bearer[t]) = 2 =>
                  bearer[t][2] = new_token[t] /\ bearer[t][2] # bearer[t][1]
             /\ new_token[t] = NoneV => ftresult[t] = "raised"
             /\ RetryFailed(t) => ftresult[t] = "raised"
        /\ Ended(t) /\ First401(t) /\ api_key =>
             /\ exchanges[t].refresh = 0
             /\ Len(bearer[t]) = 1
             /\ ftresult[t] = "raised"

\* a 401, one refresh, one retry that failed too, and the call raised
C9_Witness ==
    \E t \in Threads :
        /\ Ended(t)
        /\ First401(t)
        /\ exchanges[t].refresh = 1
        /\ Len(bearer[t]) = 2
        /\ RetryFailed(t)
        /\ ftresult[t] = "raised"

\* thread t starts the token exchange for the token of line 165
StartsExchange(t) ==
    /\ ftpc[t] = "auth"
    /\ phase[t] = "first"
    /\ ftpc'[t] = "exchanging"

\* thread t, with credentials and no API key, gets past the tests of
\* _get_auth_token for the token of line 165
PassesAuth(t) ==
    /\ ftpc[t] = "auth"
    /\ phase[t] = "first"
    /\ ftpc'[t] # "auth"
    /\ ~api_key
    /\ client_id /\ client_secret

\* C10 as stated: before a search the exchange is performed only when no
\* cached non-expired token exists: no token is cached, or the expiry of
\* the cached one has passed.
C10_AsStated ==
    [][\A t \in Threads :
          StartsExchange(t) =>
              \/ access_token = NoneV
              \/ token_expiry # NoneV /\ now >= token_expiry.at]_vars

\* C10 (amended): before each search the client reuses the cached token
\* exactly when a token is cached together with a stored expiry that the
\* clock has not reached; otherwise (no token cached, no expiry stored
\* because the exchange answer carried no usable expires_in, or the stored
\* expiry reached) it performs the exchange.  Hence after an exchange that
\* stored an expiry no later search exchanges again before that expiry,
\* absent a 401; a search that reused the cache sends the cached token.
C10_TokenCaching ==
    /\ [][\A t \in Threads :
             PassesAuth(t) =>
                 IF access_token # NoneV /\ token_expiry # NoneV /\ now < token_expiry.at
                 THEN ftpc'[t] = "auth_read"
                 ELSE ftpc'[t] = "exchanging"]_vars
    /\ [](\A t \in Threads :
             ftpc[t] = "requesting" /\ ~api_key /\ exchanges[t].first = 0 =>
                 /\ bearer[t] = <<access_token>>
                 /\ token_expiry # NoneV)

\* a later search sends the token an earlier search cached, without exchange
C10_Witness ==
    \E t \in Threads :
        /\ ftpc[t] = "requesting"
        /\ ~api_key
        /\ calls >= 2
        /\ exchanges[t].first = 0
        /\ bearer[t] = <<access_token>>

(***************************************************************************)
(* Properties of the registry the agent builds (checked under SpecReg).    *)
(***************************************************************************)
\* the agent has been constructed
Constructed == pc \notin {"new", "init_raised"}

\* C11 as stated: constructing the agent never raises because a source
\* client cannot be configured; a source whose credentials are absent has
\* no client, is not among the available sources, gets no task and no call,
\* and is never in failed_sources; with no credentials for any source the
\* search raises the no-source error.
C11_AsStated ==
    /\ pc = "init_raised" => ~env["OPENAI_API_KEY"]
    /\ Constructed =>
         \A s \in JobSource :
             ~CredentialsInEnv(s, env) =>
                 /\ clients[s] = Null
                 /\ s \notin Range(available_sources)
                 /\ task[s] = "none"
                 /\ invoked[s] = 0
                 /\ s \notin Range(failed_sources)
    /\ Constructed /\ (\A s \in JobSource : ~CredentialsInEnv(s, env)) =>
         pc \in {"idle", "raised"}

(***************************************************************************)
(* Further properties of search_jobs (checked under Spec).                 *)
(***************************************************************************)
\* the sources that have a client
Configured == {s \in JobSource : clients[s] # Null}

\* C12: the pool has as many workers as there are available sources; every
\* available source gets one task, and that task calls the source's client
\* once, with the title, location, radius, keywords and limit_per_source of
\* the request; a source without client gets no task and no call; a client
\* is not called again after it failed.
C12_OneTaskPerSource ==
    /\ pc \in {"fanin", "returned"} =>
         /\ max_workers = Cardinality(Configured)
         /\ Range(available_sources) = Configured
         /\ Len(available_sources) = Cardinality(Configured)
         /\ \A s \in Configured : task[s] # "none"
    /\ \A s \in JobSource :
         /\ invoked[s] <= 1
         /\ Len(call_args[s]) = invoked[s]
         /\ s \notin Configured => task[s] = "none" /\ invoked[s] = 0
         /\ task[s] = "running" => invoked[s] = 0
         /\ task[s] \in {"done", "collected"} =>
              /\ invoked[s] = 1
              /\ call_args[s][1].job_title = query.job_title
              /\ call_args[s][1].location = query.location
              /\ call_args[s][1].radius = query.radius
              /\ call_args[s][1].keywords = query.keywords
              /\ call_args[s][1].limit = query.limit_per_source

\* two sources were searched, one of them failed, each was called once,
\* with a limit that is not the clients' default
C12_Witness ==
    /\ Returned_
    /\ max_workers = 2
    /\ Len(response.failed_sources) = 1
    /\ \A s \in Configured : invoked[s] = 1 /\ call_args[s][1].limit = 2

RECURSIVE MergeInOrder(_)
\* the merged list of lines 159-170 when the futures of sources are
\* yielded in this order
MergeInOrder(sources) ==
    IF sources = << >> THEN << >>
    ELSE LET got == Processed(Head(sources), outcome[Head(sources)])
         IN (IF got.ok THEN got.items ELSE << >>) \o MergeInOrder(Tail(sources))

\* C13 as stated: for fixed outcomes of the sources the results are the same
\* in every completion order: they are the results obtained when the
\* futures complete in the order they were submitted (read here on the
\* searches whose posted_date values are all strings or None, where the
\* sort does not raise).
C13_AsStated ==
    Returned_ /\ AllDatesStrings(response.results) =>
        response.results = SortByPostedDate(MergeInOrder(available_sources)).list

(***************************************************************************)
(* Properties of one client call (checked under SpecClient).               *)
(***************************************************************************)
\* the call has ended
CallEnded == cpc \in {"returned", "raised"}

\* the reply the call ended on
LastReply == creplies[Len(creplies)]

\* the reply's body can be read as a list of records by the client
Readable(source, r) ==
    /\ r.json
    /\ source \in {INDEED, GLASSDOOR} => r.records.t \in {"absent", "list"}

\* every record of the reply, as the client hands it over
WholeResult(source, r) ==
    IF r.records.t = "absent" THEN List(<< >>)
    ELSE IF source = FRANCE_TRAVAIL
    THEN (IF r.records.t = "dict" THEN r.records.resultats ELSE r.records)
    ELSE List([i \in DOMAIN r.records.items |->
                 [job_id |-> r.records.items[i].id, source |-> source]])

\* statuses is the set of success statuses of every client: a call that
\* ended on a reply with another status raised, and one that ended on a
\* readable reply with such a status returned every record of it
StatusHandling(statuses) ==
    CallEnded /\ creplies # << >> /\ LastReply.kind = "http" =>
        /\ LastReply.status \notin statuses[csource] => cpc = "raised"
        /\ LastReply.status \in statuses[csource] /\ Readable(csource, LastReply) =>
               cpc = "returned" /\ cret = WholeResult(csource, LastReply)

\* C14 as stated: every client takes 200 and 206 as success, raises on any
\* other status, and returns the whole result or nothing
C14_AsStated == StatusHandling([source \in HttpClients |-> {200, 206}])

\* positions i..i+4 of s are a postal code: five digits with no digit
\* right before or right after them
IsPostalCode(s, i) ==
    /\ i >= 1 /\ i + 4 <= Len(s)
    /\ \A j \in i..(i + 4) : s[j] \in Digits
    /\ i > 1 => s[i - 1] \notin Digits
    /\ i + 5 <= Len(s) => s[i + 5] \notin Digits

\* the department of location string s by the rules (a) to (d)
ResolvedDepartement(s) ==
    IF \E i \in 1..Len(s) : IsPostalCode(s, i)
    THEN LET first == CHOOSE i \in 1..Len(s) :
                          /\ IsPostalCode(s, i)
                          /\ \A j \in 1..(i - 1) : ~IsPostalCode(s, j)
         IN <<s[first], s[first + 1]>>
    ELSE IF Len(s) = 2 /\ s[1] \in Digits /\ s[2] \in Digits THEN s
    ELSE IF \E k \in DOMAIN DeptCodes : DeptCodes[k][1] = Lower(s)
    THEN LET k == CHOOSE k \in DOMAIN DeptCodes : DeptCodes[k][1] = Lower(s)
         IN DeptCodes[k][2]
    ELSE <<"7", "5">>

\* the department parameter of every request of the call is dept
SendsDepartement(dept) ==
    \A i \in DOMAIN crequests : crequests[i].params.departement = dept

\* C15 as stated: every request a France Travail call with a location
\* string has just sent carries the department that rules (a) to (d) give
\* for the string
C15_AsStated ==
    csource = FRANCE_TRAVAIL /\ cpc \in {"sent", "resent"} /\ cargs.location.t = "str" =>
        SendsDepartement(Str(ResolvedDepartement(cargs.location.s)))

\* C15: every request a France Travail call with a non-empty location
\* string has just sent carries the department that rules (a) to (d) give
\* for the string, and a call with no location or the empty string sends no
\* department;
\* "75001" gives 75, "69" gives 69, "Lyon" gives 69, "unknown city" gives 75
C15_LocationResolution ==
    csource = FRANCE_TRAVAIL /\ cpc \in {"sent", "resent"} =>
        /\ IF cargs.location.t = "str" /\ cargs.location.s # << >>
           THEN SendsDepartement(Str(ResolvedDepartement(cargs.location.s)))
           ELSE SendsDepartement(Absent)
        /\ cargs.location = Str(<<"7", "5", "0", "0", "1">>) => SendsDepartement(Str(<<"7", "5">>))
        /\ cargs.location = Str(<<"6", "9">>) => SendsDepartement(Str(<<"6", "9">>))
        /\ cargs.location = Str(<<"L", "y", "o", "n">>) => SendsDepartement(Str(<<"6", "9">>))
        /\ cargs.location = Str(<<"u", "n", "k", "n", "o", "w", "n", " ", "c", "i", "t", "y">>) => SendsDepartement(Str(<<"7", "5">>))

\* the request for "Lyon" was sent twice, with department 69
C15_Witness ==
    /\ csource = FRANCE_TRAVAIL
    /\ cargs.location = Str(<<"L", "y", "o", "n">>)
    /\ Len(crequests) = 2
    /\ SendsDepartement(Str(<<"6", "9">>))

\* location string s matches none of the rules (a) to (c)
MatchesNoRule(s) ==
    /\ \A i \in 1..Len(s) : ~IsPostalCode(s, i)
    /\ ~(Len(s) = 2 /\ s[1] \in Digits /\ s[2] \in Digits)
    /\ \A k \in DOMAIN DeptCodes : DeptCodes[k][1] # Lower(s)

\* C29 as stated: every request a France Travail call has just sent carries
\* a department, and the default one when the location is absent, empty or a
\* string that matches none of the rules
C29_AsStated ==
    csource = FRANCE_TRAVAIL /\ cpc \in {"sent", "resent"} =>
        /\ \A i \in DOMAIN crequests : crequests[i].params.departement # Absent
        /\ (cargs.location.t = "str" => MatchesNoRule(cargs.location.s)) =>
               SendsDepartement(Str(<<"7", "5">>))

\* C29 (amended): every request a France Travail call with a non-empty
\* location has just sent carries a department, the default one when the
\* location matches none of the rules (a known city with surrounding
\* whitespace included); a call with an absent or empty location sends its
\* requests without department
C29_FallbackCompleteness ==
    csource = FRANCE_TRAVAIL /\ cpc \in {"sent", "resent"} =>
        IF cargs.location.t = "str" /\ cargs.location.s # << >>
        THEN /\ \A i \in DOMAIN crequests : crequests[i].params.departement # Absent
             /\ MatchesNoRule(cargs.location.s) => SendsDepartement(Str(<<"7", "5">>))
             /\ cargs.location = Str(<<" ", "L", "y", "o", "n">>) =>
                    SendsDepartement(Str(<<"7", "5">>))
        ELSE SendsDepartement(Absent)

\* the request for " Lyon" was sent with the default department
C29_Witness ==
    /\ csource = FRANCE_TRAVAIL
    /\ cpc = "sent"
    /\ cargs.location = Str(<<" ", "L", "y", "o", "n">>)
    /\ crequests # << >>
    /\ crequests[1].params.departement = Str(<<"7", "5">>)

\* C16: every request a France Travail call has just sent, the first and
\* the one sent again after a refresh, is the request the same call sends
\* when no keywords are supplied, and its query text is the text
\* built from the title and the job keywords alone
C16_KeywordsIgnored ==
    csource = FRANCE_TRAVAIL /\ cpc \in {"sent", "resent"} =>
        \A i \in DOMAIN crequests :
            /\ crequests[i].params = FranceTravailParams([cargs EXCEPT !.keywords = NoneV])
            /\ crequests[i].params.motsCles =
                   Str(MotsCles(cargs.job_title, cargs.job_keywords))

\* a request was sent by a call that was given two keywords
C16_Witness ==
    /\ csource = FRANCE_TRAVAIL
    /\ crequests # << >>
    /\ cargs.keywords = List(<<Txt("python"), Txt("sql")>>)

\* C20 as stated: a call that returned a list returned at most limit records
C20_AsStated ==
    cpc = "returned" /\ cret.t = "list" => Len(cret.items) <= cargs.limit

(***************************************************************************)
(* Properties of the normalization (checked under SpecNorm).               *)
(***************************************************************************)
\* the normalization of the record does not raise
Normalizable(job) == ~RecordRaises(job)

\* C17: every call returns one posting for each record of its batch whose
\* normalization does not raise, in the order of the batch, so as many
\* postings as the batch has records less the malformed ones
C17_RecordIsolation ==
    \A c \in DOMAIN norm_calls :
        LET batch == norm_calls[c].results
            postings == norm_calls[c].postings
            kept == SelectSeq(batch, Normalizable)
            malformed == {i \in DOMAIN batch : RecordRaises(batch[i])}
        IN /\ Len(postings) = Len(batch) - Cardinality(malformed)
           /\ Len(postings) = Len(kept)
           /\ \A i \in DOMAIN postings :
                  /\ postings[i].raw_data = kept[i]
                  /\ postings[i].source = FRANCE_TRAVAIL

\* a batch of a record that is no dictionary followed by a complete record
\* gave the posting of the complete record
C17_Witness ==
    \E c \in DOMAIN norm_calls :
        /\ norm_calls[c].results = <<Txt("not a record"), FullRecord>>
        /\ Len(norm_calls[c].postings) = 1
        /\ norm_calls[c].postings[1].job_id = 1

\* value is missing or a dictionary
OptionalDict(value) == value.t \in {"absent", "dict"}

\* job is a dictionary each of whose optional sub-objects is missing or of
\* its type
Conforms(job) ==
    /\ job.t = "dict"
    /\ OptionalDict(job.entreprise)
    /\ OptionalDict(job.origineOffre)
    /\ OptionalDict(job.lieuTravail)
    /\ OptionalDict(job.salaire)
    /\ \/ job.competences.t = "absent"
       \/ /\ job.competences.t = "list"
          /\ \A i \in DOMAIN job.competences.items : job.competences.items[i].t = "dict"

\* posting is the posting of job with the defaults for what job lacks
HasDefaults(posting, job) ==
    /\ posting.raw_data = job
    /\ job.entreprise.t = "absent" => posting.company = NonSpecifie
    /\ job.entreprise.t = "dict" /\ job.entreprise.nom.t = "absent" =>
           posting.company = NonSpecifie
    /\ job.lieuTravail.t = "absent" =>
           posting.location.city = EmptyStr /\ posting.location.postal_code = EmptyStr
    /\ job.competences.t = "absent" => posting.required_skills = << >>
    /\ job.salaire.t = "absent" => posting.salary_range = EmptyStr
    /\ job.origineOffre.t = "absent" => posting.url = DefaultUrl
    /\ job.dateCreation.t = "absent" => posting.posted_date = EmptyStr
    /\ job.intitule.t = "absent" => posting.title = EmptyStr
    /\ job.description.t = "absent" => posting.description = EmptyStr
    /\ job.typeContrat.t = "absent" => posting.job_type = EmptyStr

\* C18: every record of a batch that is a dictionary whose optional
\* sub-objects are missing or of their type has its posting in the list
\* returned, the company set to the placeholder and the other fields to the
\* empty string, the empty list or their default where the record lacks them
C18_MissingFieldsKept ==
    \A c \in DOMAIN norm_calls :
        \A i \in DOMAIN norm_calls[c].results :
            Conforms(norm_calls[c].results[i]) =>
                \E k \in DOMAIN norm_calls[c].postings :
                    HasDefaults(norm_calls[c].postings[k], norm_calls[c].results[i])

\* the record with nothing but its id was normalized, with the placeholder
\* as company and no skills
C18_Witness ==
    \E c \in DOMAIN norm_calls :
        /\ norm_calls[c].results = <<Dict(2, Absent, Absent)>>
        /\ Len(norm_calls[c].postings) = 1
        /\ norm_calls[c].postings[1].company = NonSpecifie
        /\ norm_calls[c].postings[1].required_skills = << >>

WorkerStep == \E s \in JobSource : task[s] = "running" /\ task'[s] = "done"

\* the orchestrating thread takes a fan-in step: it collects a future that
\* is done
FanInStep ==
    /\ pc = "fanin"
    /\ \E s \in JobSource : task[s] = "done" /\ task'[s] = "collected"

\* C21: a step of a worker leaves results and failed_sources as they are;
\* between their creation and the end of the fan-in loop the two lists
\* change only in a fan-in step of the orchestrating thread, for a future
\* that is done
C21_SingleWriter ==
    [][/\ WorkerStep => results' = results /\ failed_sources' = failed_sources
       /\ pc = "fanin" /\ ~FanInComplete
            /\ (results' # results \/ failed_sources' # failed_sources) => FanInStep]_vars

\* one task has been collected into results, another one is still running
C21_Witness ==
    /\ pc = "fanin"
    /\ results # << >>
    /\ \E s \in JobSource : task[s] = "running"

\* the postings a source that did not fail contributes: what its task
\* returned, normalized for France Travail
PostingsOf(s) ==
    IF s = FRANCE_TRAVAIL THEN ProcessFranceTravailResults(outcome[s].items)
    ELSE outcome[s].items

\* how often x occurs in xs
Count(x, xs) == Cardinality({i \in DOMAIN xs : xs[i] = x})

RECURSIVE TotalPostings(_)
\* the number of postings the sources of this list contribute
TotalPostings(sources) ==
    IF sources = << >> THEN 0
    ELSE Len(PostingsOf(Head(sources))) + TotalPostings(Tail(sources))

\* C23: in a response the sources that are not in failed_sources returned a
\* list; every posting of the results comes from one of them, every posting
\* of one of them is in the results as often as the source contributed it,
\* and total_count is the sum of what these sources contributed
C23_Conservation ==
    Returned_ =>
        LET ok == SelectSeq(available_sources,
                            LAMBDA s : s \notin Range(response.failed_sources))
        IN /\ \A s \in Range(ok) : outcome[s].kind = "list"
           /\ \A p \in Range(response.results) : p.source \in Range(ok)
           /\ \A s \in Range(ok) :
                  \A p \in Range(PostingsOf(s)) \cup Range(response.results) :
                      p.source = s =>
                          Count(p, response.results) = Count(p, PostingsOf(s))
           /\ response.total_count = TotalPostings(ok)
           /\ Len(response.results) = TotalPostings(ok)

\* one source failed, another contributed two postings that the sort put in
\* another order
C23_Witness ==
    /\ Returned_
    /\ response.failed_sources # << >>
    /\ Len(response.results) >= 2
    /\ merged # response.results

\* xs holds no element twice
NoDuplicates(xs) == \A i, j \in DOMAIN xs : xs[i] = xs[j] => i = j

\* C24: in a response failed_sources is within available_sources, which is
\* within the sources that were dispatched; no source is twice in either
\* list and no source without a client is in either
C24_FailedSubset ==
    Returned_ =>
        /\ Range(response.failed_sources) \subseteq Range(response.available_sources)
        /\ Range(response.available_sources) \subseteq {s \in JobSource : invoked[s] = 1}
        /\ NoDuplicates(response.failed_sources)
        /\ NoDuplicates(response.available_sources)
        /\ \A s \in JobSource :
               clients[s] = Null =>
                   /\ s \notin Range(response.failed_sources)
                   /\ s \notin Range(response.available_sources)

\* both dispatched sources failed, two others have no client
C24_Witness ==
    /\ Returned_
    /\ Len(response.failed_sources) = 2
    /\ Len(response.available_sources) = 2
    /\ \E s \in JobSource : clients[s] = Null

\* C25: a cached token is always stored with the expiry its own exchange
\* delivered, never with the expiry of an earlier token, so that a search
\* reuses the cached token only while the clock is before that token's own
\* expiry
C25_AsStated ==
    /\ access_token # NoneV /\ token_expiry # NoneV =>
           token_expiry.of = access_token.n
    /\ \A t \in Threads :
           ftpc[t] = "auth_read" /\ access_token # NoneV =>
               token_expiry.of = access_token.n

\* C26: with a static API key every search request carries the key, no
\* token exchange is ever made, access_token and token_expiry stay unset,
\* and a search answered 401 has sent exactly one request and raises,
\* whether or not client id and secret are configured
C26_StaticKeyPrecedence ==
    api_key =>
        /\ access_token = NoneV
        /\ token_expiry = NoneV
        /\ issued = 0
        /\ \A t \in Threads :
               /\ ftpc[t] \notin {"auth_read", "exchanging", "retrying"}
               /\ exchanges[t] = [first |-> 0, refresh |-> 0]
               /\ bearer[t] \in {<< >>, <<ApiKey>>}
               /\ Ended(t) => bearer[t] = <<ApiKey>>
               /\ Ended(t) /\ First401(t) =>
                      Len(replies[t]) = 1 /\ ftresult[t] = "raised"

\* with key, id and secret the second search on the client was answered 401
\* and raised
C26_Witness ==
    /\ api_key
    /\ client_id
    /\ client_secret
    /\ calls >= 2
    /\ \E t \in Threads :
           Ended(t) /\ First401(t) /\ bearer[t] = <<ApiKey>> /\ ftresult[t] = "raised"

\* C28 as stated: an exchange that gives no token (the call then raises at
\* once, in the first phase as in the refresh) leaves the cached
\* access_token and token_expiry as they were
C28_AsStated ==
    [][\A t \in Threads :
          ftpc[t] \in {"auth", "exchanging"} /\ ftpc'[t] = "idle" =>
              /\ access_token' = access_token
              /\ token_expiry' = token_expiry]_vars

(***************************************************************************)
(* Properties of the agent's search with its France Travail client in      *)
(* detail (checked under SpecAgentFT).                                     *)
(***************************************************************************)
\* C27: no search request leaves without a token; without API key, a client
\* that lacks id or secret, or that no exchange has ever given a token,
\* has sent no request; a call that ends without having sent a request has
\* raised; and the aggregator puts the source of a call that raised in
\* failed_sources and takes no posting from it
C27_NoTokenNoRequest ==
    /\ \A i \in DOMAIN bearer[Worker] : bearer[Worker][i] # NoneV
    /\ Len(replies[Worker]) <= Len(bearer[Worker])
    /\ ~api_key /\ (~HasCredentials \/ issued = 0) => bearer[Worker] = << >>
    /\ Ended(Worker) /\ bearer[Worker] = << >> => ftresult[Worker] = "raised"
    /\ ftresult[Worker] = "raised" /\ task[FRANCE_TRAVAIL] = "collected" =>
           /\ FRANCE_TRAVAIL \in Range(failed_sources)
           /\ results = << >>
    /\ ftresult[Worker] = "raised" /\ Returned_ =>
           /\ response.failed_sources = <<FRANCE_TRAVAIL>>
           /\ response.results = << >>

\* with id and secret the exchange of the call failed: the call raised
\* without a request and the response names the source as failed
C27_Witness ==
    /\ Returned_
    /\ ~api_key
    /\ HasCredentials
    /\ exchanges[Worker].first = 1
    /\ bearer[Worker] = << >>
    /\ ftresult[Worker] = "raised"
    /\ response.failed_sources = <<FRANCE_TRAVAIL>>

(***************************************************************************)
(* Termination of search_jobs (checked under SpecLive).                    *)
(***************************************************************************)
\* every dispatched task has returned or raised
AllTasksResolved ==
    /\ pc = "fanin"
    /\ \A s \in Range(available_sources) : task[s] \in {"done", "collected"}

\* C30: once every dispatched task has returned or raised, search_jobs
\* returns a response; and a task only moves forward, from running to done
\* and from done to collected: none is cancelled or submitted again
C30_Termination ==
    /\ AllTasksResolved ~> Returned_
    /\ [][\A s \in JobSource :
             task'[s] # task[s] =>
                 \/ task[s] = "none" /\ task'[s] = "running" /\ pc = "idle"
                 \/ task[s] = "running" /\ task'[s] = "done"
                 \/ task[s] = "done" /\ task'[s] = "collected"]_vars

\* two tasks are resolved, one raised, and none is collected yet
C30_Witness ==
    /\ AllTasksResolved
    /\ Len(completed) = 2
    /\ \E s \in Range(available_sources) : outcome[s] = Raised

(***************************************************************************)
(* Properties of two concurrent searches on one FranceTravailClient        *)
(* (checked under SpecFTConcurrent).                                       *)
(***************************************************************************)
\* C22 as stated: on a client with client id and client secret (and no
\* static key), every search that has ended and whose first request was
\* answered 401 has attempted a token refresh
C22_AsStated ==
    \A t \in Threads :
        Ended(t) /\ First401(t) /\ ~api_key => exchanges[t].refresh >= 1


====
